---- MODULE Spec2Model ----
(***************************************************************************)
(* Model of the NBA ingestion + flattening pipeline:                       *)
(*   scripts/bronze_layer_1.py  get_nba_scoreboard (scoreboard fetch)      *)
(*   plugins/bronze_layer_2.py  NBABoxscoreProcessor (boxscore fetch)      *)
(*   scripts/silver_layer_1.py  extractors, process_single_file,           *)
(*                              NBASilverProcessor                         *)
(* Several specifications share the module; each drives one part of the    *)
(* program and leaves the variables of the other parts at their idle       *)
(* values.                                                                 *)
(***************************************************************************)
EXTENDS Integers, Sequences, FiniteSets, TLC

VARIABLES
    kind,         \* which fetch client runs: "boxscore" or "scoreboard"
    pc,           \* position of the fetch call: "loop", "after", "upload", "done"
    retry_count,  \* the local retry_count of the fetch call
    tries,        \* what the upstream did on each attempt made so far
    slept,        \* the time.sleep() durations executed so far, in order
    uploads,      \* the outcome of each blob.upload_from_file call, in order
    writes,       \* the bodies stored in the snapshot object, in order
    result,       \* the value returned by the fetch call (NoResult before)
    raised,       \* TRUE when an exception left the fetch call
    \* the joblib pool of a stage (bronze: one task per batch; silver: one per blob)
    stage,        \* "idle", "start", "dispatch", "done" (returned), "raised"
    task,         \* task index -> "pending", "running", "done", "failed"
    worker,       \* task index -> the worker process that took it (0: none yet)
    runs,         \* task index -> how many times the task was started
    uses,         \* task index -> who built the objects the task works with
    \* the boxscore stage (NBABoxscoreProcessor)
    scoreboard,   \* the scoreboard snapshot of the partition, read by get_game_ids
    upstream,     \* which game ids the upstream fails, for how many attempts, and how
    game_ids,     \* the list returned by get_game_ids
    game_batches, \* the batches built by batch_config
    game,         \* game id -> what process_game_with_retry did for it
    batch_result, \* task index -> value returned by process_game_batch
    stage_result, \* value returned by batch_config
    \* one call of process_single_file
    blob,         \* the snapshot object it is given: name, readable, data
    file,         \* its local state: position, all_records, raised, returned
    \* the flattening stage (NBASilverProcessor)
    blobs,            \* the snapshot objects list_blobs returns for the partition
    parallel_results, \* task index -> the list returned by process_single_file
    inserted,         \* the data argument of each insert_to_bigquery call, in order
    run_result,       \* what run() returned: message and record count
    \* insert_to_bigquery and the warehouse table
    loader,       \* its local state: data, position i, load operations, returned
    table,        \* the rows of the warehouse table, in load order
    \* the snapshot buckets over several runs of the fetch stages
    objects,      \* the objects the buckets hold: bucket, name, body, writing run
    plan,         \* what the upstream and the buckets do to the runs of the partition
    reruns,       \* how many runs of each fetch stage have ended, and how
    \* one run of the DAG for a partition
    ti,           \* task id -> state of its task instance
    try_number,   \* task id -> how many times the task instance was started
    fn,           \* task id -> the invocation of the stage function it posts to
    landed,       \* the snapshots the partition holds: scoreboard, game ids
    slate,        \* how many games the upstream scoreboard lists for the day
    \* one call of process_game_batch
    batch_loop,   \* its local state: position, session, index of the loop
    events,       \* what it did so far, in order: session, sleep, get, end
    \* the clock and the partition key of each stage of one pipeline run
    now,          \* the current time, in half days since StartOfClock
    stages        \* stage -> position, start time, date_path, object names used

fetchVars == <<kind, pc, retry_count, tries, slept, uploads, writes, result, raised>>
poolVars == <<stage, task, worker, runs, uses>>
bronzeVars ==
    <<scoreboard, upstream, game_ids, game_batches, game, batch_result,
      stage_result>>

flattenVars == <<blob, file>>
silverVars == <<blobs, parallel_results, inserted, run_result>>
storeVars == <<objects, plan, reruns>>
loadVars == <<loader, table>>
dagVars == <<ti, try_number, fn, landed, slate>>
batchVars == <<batch_loop, events>>
clockVars == <<now, stages>>

vars ==
    <<fetchVars, poolVars, bronzeVars, flattenVars, silverVars, storeVars, loadVars,
      dagVars, batchVars, clockVars>>

\* the variables a part of the program leaves alone
notFetch ==
    <<poolVars, bronzeVars, flattenVars, silverVars, storeVars, loadVars, dagVars,
      batchVars, clockVars>>
notBronze ==
    <<fetchVars, flattenVars, silverVars, storeVars, loadVars, dagVars,
      batchVars, clockVars>>
notFlatten ==
    <<fetchVars, poolVars, bronzeVars, silverVars, storeVars, loadVars, dagVars,
      batchVars, clockVars>>
notSilver ==
    <<fetchVars, bronzeVars, flattenVars, storeVars, dagVars,
      batchVars, clockVars>>
notStore ==
    <<fetchVars, poolVars, bronzeVars, flattenVars, silverVars, loadVars, dagVars,
      batchVars, clockVars>>
notLoad ==
    <<fetchVars, poolVars, bronzeVars, flattenVars, silverVars, storeVars, dagVars,
      batchVars, clockVars>>
notDag ==
    <<fetchVars, poolVars, bronzeVars, flattenVars, silverVars, storeVars, loadVars,
      batchVars, clockVars>>
notBatch ==
    <<poolVars, bronzeVars, flattenVars, silverVars, storeVars, loadVars, dagVars, clockVars>>
notClock ==
    <<fetchVars, poolVars, bronzeVars, flattenVars, silverVars, storeVars, loadVars,
      dagVars, batchVars>>

-----------------------------------------------------------------------------
(* Upstream behaviour of one attempt.                                      *)

\* What one GET attempt can meet.  "upload_fail" is a 2xx JSON response
\* whose upload to the bucket raises.
AttemptEnvs ==
    {"ok", "exception", "http_error_json", "http_error_nojson",
     "ok_nojson", "upload_fail"}

\* session.get / requests.get returned a response (no connection error, no
\* timeout); "silent" is an upstream that never answers the request
Responded(env) == env \notin {"exception", "silent"}
\* response.raise_for_status() does not raise
StatusOk(env) == env \in {"ok", "ok_nojson", "upload_fail"}
\* response.json() does not raise
JsonOk(env) == env \in {"ok", "http_error_json", "upload_fail"}
\* blob.upload_from_file does not raise
UploadOk(env) == env # "upload_fail"

\* the body a response carries when it decodes
Body(env) == IF StatusOk(env) THEN "payload" ELSE "error_body"

NoResult == "no_result"
PyNone == "None"
PyTrue == "True"
PyFalse == "False"
ScoreboardError == "ERROR: Failed to get NBA scoreboard data after 3 attempts"

max_retries == 3
boxscore_retry_delay == 3
scoreboard_retry_delay == 2

-----------------------------------------------------------------------------
(* plugins/bronze_layer_2.py: process_game_with_retry                      *)

\* The local state of one call before its first attempt.
FetchStart ==
    [pc |-> "loop", retry_count |-> 0, tries |-> <<>>, slept |-> <<>>,
     uploads |-> <<>>, writes |-> <<>>, result |-> NoResult, raised |-> FALSE]

\* while retry_count < max_retries
LoopGuardBroken(rc) == rc <= max_retries
LoopGuard(rc) == rc < max_retries

\* The try body of one boxscore attempt succeeds: get, raise_for_status,
\* json, to_parquet, upload.
BoxscoreTryOk(env) ==
    Responded(env) /\ StatusOk(env) /\ JsonOk(env) /\ UploadOk(env)

\* the try body got as far as blob.upload_from_file
BoxscoreUploadCalled(env) == Responded(env) /\ StatusOk(env) /\ JsonOk(env)

\* the except branch had it slept the base delay every time
ExceptBranchFlat(st, env, delay) ==
    [st EXCEPT !.tries = Append(@, env),
               !.retry_count = @ + 1,
               !.slept = Append(@, delay),
               !.pc = IF LoopGuard(st.retry_count + 1) THEN "loop" ELSE "after"]

\* the except branch had it slept only when another attempt follows
ExceptBranchNoLastSleep(st, env, delay) ==
    [st EXCEPT !.tries = Append(@, env),
               !.retry_count = @ + 1,
               !.slept = IF LoopGuard(st.retry_count + 1)
                         THEN Append(@, delay * (st.retry_count + 1)) ELSE @,
               !.pc = IF LoopGuard(st.retry_count + 1) THEN "loop" ELSE "after"]

\* the except branch: retry_count += 1; time.sleep(retry_delay * retry_count)
ExceptBranch(st, env, delay) ==
    [st EXCEPT !.tries = Append(@, env),
               !.retry_count = @ + 1,
               !.slept = Append(@, delay * (st.retry_count + 1)),
               !.pc = IF LoopGuard(st.retry_count + 1) THEN "loop" ELSE "after"]

\* the break statement forgotten: a successful attempt goes round the loop again
BoxscoreAttemptNoBreak(st, env) ==
    IF BoxscoreTryOk(env)
    THEN [st EXCEPT !.tries = Append(@, env),
                    !.uploads = Append(@, TRUE),
                    !.writes = Append(@, Body(env)),
                    !.retry_count = @ + 1,
                    !.pc = IF LoopGuard(st.retry_count + 1) THEN "loop" ELSE "after"]
    ELSE ExceptBranch(st, env, boxscore_retry_delay)

\* the body stored before the status of the response is checked
BoxscoreAttemptStoreFirst(st, env) ==
    IF BoxscoreTryOk(env)
    THEN [st EXCEPT !.tries = Append(@, env),
                    !.uploads = Append(@, TRUE),
                    !.writes = Append(@, Body(env)),
                    !.pc = "after"]
    ELSE LET failed == ExceptBranch(st, env, boxscore_retry_delay)
         IN  IF Responded(env) /\ JsonOk(env) /\ UploadOk(env)
             THEN [failed EXCEPT !.uploads = Append(@, TRUE),
                                 !.writes = Append(@, Body(env))]
             ELSE failed

\* One iteration of the while loop of process_game_with_retry.
BoxscoreAttempt(st, env) ==
    IF BoxscoreTryOk(env)
    THEN [st EXCEPT !.tries = Append(@, env),
                    !.uploads = Append(@, TRUE),
                    !.writes = Append(@, Body(env)),
                    !.pc = "after"]            \* break
    ELSE LET failed == ExceptBranch(st, env, boxscore_retry_delay)
         IN  IF BoxscoreUploadCalled(env)
             THEN [failed EXCEPT !.uploads = Append(@, FALSE)]
             ELSE failed

\* if retry_count >= max_retries: return False / return True
BoxscoreReturn(st) ==
    [st EXCEPT !.result = IF st.retry_count >= max_retries THEN PyFalse ELSE PyTrue,
               !.pc = "done"]

-----------------------------------------------------------------------------
(* scripts/bronze_layer_1.py: get_nba_scoreboard                           *)

\* The try body of one scoreboard attempt: requests.get and reponse.json();
\* the status of the response is not looked at.
ScoreboardTryOk(env) == Responded(env) /\ JsonOk(env)

\* One iteration of the while loop of get_nba_scoreboard.
ScoreboardAttempt(st, env) ==
    IF ScoreboardTryOk(env)
    THEN [st EXCEPT !.tries = Append(@, env), !.pc = "after"]   \* break
    ELSE ExceptBranch(st, env, scoreboard_retry_delay)

\* After the loop: return the error message, or go on to the upload.
ScoreboardAfterLoop(st) ==
    IF st.retry_count >= max_retries
    THEN [st EXCEPT !.result = ScoreboardError, !.pc = "done"]
    ELSE [st EXCEPT !.pc = "upload"]

\* The upload block (outside any try) and the fall off the end of the function.
ScoreboardUpload(st, uploadOk) ==
    IF uploadOk
    THEN [st EXCEPT !.uploads = Append(@, TRUE),
                    !.writes = Append(@, Body(st.tries[Len(st.tries)])),
                    !.result = PyNone, !.pc = "done"]
    ELSE [st EXCEPT !.uploads = Append(@, FALSE),
                    !.raised = TRUE, !.pc = "done"]

-----------------------------------------------------------------------------
(* SpecFetch: one fetch call, attempt by attempt.                          *)

FetchState ==
    [pc |-> pc, retry_count |-> retry_count, tries |-> tries, slept |-> slept,
     uploads |-> uploads, writes |-> writes, result |-> result, raised |-> raised]

SetFetch(st) ==
    /\ pc' = st.pc
    /\ retry_count' = st.retry_count
    /\ tries' = st.tries
    /\ slept' = st.slept
    /\ uploads' = st.uploads
    /\ writes' = st.writes
    /\ result' = st.result
    /\ raised' = st.raised

\* the values of the variables of a part of the program that is not running
FetchIdle ==
    /\ kind = "none"
    /\ pc = "done"
    /\ retry_count = 0
    /\ tries = <<>>
    /\ slept = <<>>
    /\ uploads = <<>>
    /\ writes = <<>>
    /\ result = NoResult
    /\ raised = FALSE

PoolIdle ==
    /\ stage = "idle"
    /\ task = <<>>
    /\ worker = <<>>
    /\ runs = <<>>
    /\ uses = <<>>

BronzeIdle ==
    /\ scoreboard = [exists |-> FALSE, ids |-> <<>>]
    /\ upstream = [bad |-> {}, fails |-> 0, how |-> "ok"]
    /\ game_ids = <<>>
    /\ game_batches = <<>>
    /\ game = <<>>
    /\ batch_result = <<>>
    /\ stage_result = NoResult

FlattenIdle ==
    /\ blob = <<>>
    /\ file = <<>>

NotRun == [message |-> NoResult, total |-> 0]

SilverIdle ==
    /\ blobs = <<>>
    /\ parallel_results = <<>>
    /\ inserted = <<>>
    /\ run_result = NotRun

StoreIdle ==
    /\ objects = {}
    /\ plan = <<>>
    /\ reruns = <<>>

\* insert_to_bigquery not called, and an empty table
NotCalled == [data |-> <<>>, i |-> 0, ops |-> <<>>, returned |-> FALSE]

LoadIdle ==
    /\ loader = NotCalled
    /\ table = <<>>

DagIdle ==
    /\ ti = <<>>
    /\ try_number = <<>>
    /\ fn = <<>>
    /\ landed = <<>>
    /\ slate = 0

BatchIdle ==
    /\ batch_loop = <<>>
    /\ events = <<>>

ClockIdle ==
    /\ now = 0
    /\ stages = <<>>

InitFetch ==
    /\ PoolIdle /\ BronzeIdle /\ FlattenIdle /\ SilverIdle /\ StoreIdle /\ LoadIdle
    /\ DagIdle /\ BatchIdle /\ ClockIdle
    /\ kind \in {"boxscore", "scoreboard"}
    /\ pc = FetchStart.pc
    /\ retry_count = FetchStart.retry_count
    /\ tries = FetchStart.tries
    /\ slept = FetchStart.slept
    /\ uploads = FetchStart.uploads
    /\ writes = FetchStart.writes
    /\ result = FetchStart.result
    /\ raised = FetchStart.raised

BoxscoreTry ==
    /\ kind = "boxscore" /\ pc = "loop"
    /\ \E env \in AttemptEnvs : SetFetch(BoxscoreAttempt(FetchState, env))
    /\ UNCHANGED <<kind, notFetch>>

BoxscoreEnd ==
    /\ kind = "boxscore" /\ pc = "after"
    /\ SetFetch(BoxscoreReturn(FetchState))
    /\ UNCHANGED <<kind, notFetch>>

ScoreboardTry ==
    /\ kind = "scoreboard" /\ pc = "loop"
    /\ \E env \in AttemptEnvs \ {"upload_fail"} :
           SetFetch(ScoreboardAttempt(FetchState, env))
    /\ UNCHANGED <<kind, notFetch>>

ScoreboardCheck ==
    /\ kind = "scoreboard" /\ pc = "after"
    /\ SetFetch(ScoreboardAfterLoop(FetchState))
    /\ UNCHANGED <<kind, notFetch>>

ScoreboardStore ==
    /\ kind = "scoreboard" /\ pc = "upload"
    /\ \E uploadOk \in BOOLEAN : SetFetch(ScoreboardUpload(FetchState, uploadOk))
    /\ UNCHANGED <<kind, notFetch>>

NextFetch ==
    \/ BoxscoreTry
    \/ BoxscoreEnd
    \/ ScoreboardTry
    \/ ScoreboardCheck
    \/ ScoreboardStore

SpecFetch == InitFetch /\ [][NextFetch]_vars

(* SpecFetchSilent: the fetch call with an upstream that may never answer;  *)
(* the process keeps running, so a step that can be taken is taken.        *)

\* session.get(..., timeout=30) against a silent upstream: requests raises
\* after the timeout, and the except branch takes it as a failed attempt
BoxscoreTrySilent ==
    /\ kind = "boxscore" /\ pc = "loop"
    /\ SetFetch(BoxscoreAttempt(FetchState, "silent"))
    /\ UNCHANGED <<kind, notFetch>>

\* requests.get(url, headers=, params=, proxies=) against a silent upstream:
\* no timeout is given, the call waits for the response and does not return
ScoreboardTrySilent ==
    /\ kind = "scoreboard" /\ pc = "loop"
    /\ pc' = "get"
    /\ tries' = Append(tries, "silent")
    /\ UNCHANGED <<retry_count, slept, uploads, writes, result, raised, kind, notFetch>>

NextFetchSilent ==
    \/ NextFetch
    \/ BoxscoreTrySilent
    \/ ScoreboardTrySilent

SpecFetchSilent ==
    InitFetch /\ [][NextFetchSilent]_vars /\ WF_vars(NextFetchSilent)

-----------------------------------------------------------------------------
(* Properties of one fetch call (SpecFetch).                               *)

\* attempt k raised inside the try body of its client
TryRaised(k) ==
    IF kind = "boxscore" THEN ~BoxscoreTryOk(tries[k]) ELSE ~ScoreboardTryOk(tries[k])

\* the failure value each client returns
FailureValue == IF kind = "boxscore" THEN PyFalse ELSE ScoreboardError

\* C1: a fetch call makes at most 3 attempts, and when all 3 attempts raise
\* it makes no further attempt, lets no exception out and returns its
\* failure value (False for a boxscore, the error message for the scoreboard).
C1_AtMostThreeAttemptsThenFailureValue ==
    /\ Len(tries) <= 3
    /\ (Len(tries) = 3 /\ \A k \in 1..3 : TryRaised(k)) =>
           /\ pc \in {"after", "done"}
           /\ ~raised
           /\ pc = "done" => result = FailureValue

C1_Witness ==
    /\ kind = "boxscore" /\ pc = "done" /\ Len(tries) = 3
    /\ \A k \in 1..3 : TryRaised(k)
    /\ result = PyFalse

\* attempt k both fetched a 2xx JSON response and had its upload succeed
CleanAttempt(k) ==
    /\ tries[k] = "ok"
    /\ kind = "scoreboard" => (pc = "done" /\ uploads = <<TRUE>>)

ErrorStatus(k) == Responded(tries[k]) /\ ~StatusOk(tries[k])

\* C12 as stated: for both clients an attempt whose response has an HTTP
\* error status is a failed attempt (it consumes one retry, the loop does not
\* end on it as a success), and only bodies of HTTP success responses are
\* ever stored in the snapshot.
C12_StoredOnlyAfterHttpSuccess ==
    /\ Cardinality({k \in 1..Len(tries) : ErrorStatus(k)}) <= retry_count
    /\ \A k \in 1..Len(tries) :
          (ErrorStatus(k) /\ k = Len(tries)) => retry_count = k
    /\ \A i \in 1..Len(writes) : writes[i] = "payload"

\* an upload of the call failed (the fetch before it had succeeded)
UploadFailed == \E i \in 1..Len(uploads) : ~uploads[i]

\* C13 as stated: when the upload of a snapshot fails after its fetch
\* succeeded, no exception leaves the call, the upload is not attempted
\* again in that run, and the call ends with its failure value.
C13_UploadFailureIsOneFailure ==
    UploadFailed =>
        /\ ~raised
        /\ Len(uploads) = 1
        /\ pc = "done" => result = FailureValue

\* the call returned a str (None is what falling off the end returns)
ReturnedString == ~raised /\ result # PyNone /\ result # NoResult

\* C24 as stated: get_nba_scoreboard returns a string on every path, the
\* error message when all attempts failed and another message, for success,
\* when the snapshot was uploaded.
C24_ScoreboardReturnsString ==
    (kind = "scoreboard" /\ pc = "done") =>
        /\ ReturnedString
        /\ writes # <<>> => result # ScoreboardError
        /\ (Len(tries) = 3 /\ \A k \in 1..3 : TryRaised(k)) => result = ScoreboardError

\* the base delay of each client
BaseDelay == IF kind = "boxscore" THEN boxscore_retry_delay ELSE scoreboard_retry_delay

\* C26: the k-th failed attempt of a call is followed by a wait of
\* base_delay * k (base 3 for a boxscore, 2 for the scoreboard; 1x, then 2x
\* the base), and attempt k+1 is made only after that wait: every attempt
\* after the first has the failed attempt and the wait before it.
C26_LinearBackoff ==
    kind \in {"boxscore", "scoreboard"} =>
        /\ \A k \in 1..Len(slept) : TryRaised(k) /\ slept[k] = BaseDelay * k
        /\ \A k \in 1..(Len(tries) - 1) : TryRaised(k) /\ Len(slept) >= k
        /\ BaseDelay = (IF kind = "boxscore" THEN 3 ELSE 2)

\* a call whose third attempt was made after waits of 1x and 2x the base
C26_Witness ==
    /\ kind = "scoreboard" /\ pc = "done"
    /\ Len(tries) = 3 /\ CleanAttempt(3)
    /\ slept = <<2, 4>>

\* the time.sleep() durations of the call added up
RECURSIVE SumOf(_)
SumOf(q) == IF q = <<>> THEN 0 ELSE Head(q) + SumOf(Tail(q))

\* the call has left its loop with every attempt failed
RetriesExhausted == pc \in {"after", "done"} /\ retry_count >= max_retries

\* C33: a fetch call that exhausts its retries has slept after each of its
\* three failed attempts, the last included: base_delay * (1 + 2 + 3) in
\* total, 18 for a boxscore and 12 for the scoreboard, all of it before the
\* failure is returned, and no attempt follows the last sleep.
C33_SleepsAfterLastAttempt ==
    (kind \in {"boxscore", "scoreboard"} /\ RetriesExhausted) =>
        /\ Len(tries) = max_retries
        /\ Len(slept) = max_retries
        /\ \A k \in 1..max_retries : TryRaised(k) /\ slept[k] = BaseDelay * k
        /\ SumOf(slept) = BaseDelay * (1 + 2 + 3)
        /\ SumOf(slept) = (IF kind = "boxscore" THEN 18 ELSE 12)
        /\ pc = "done" => result = FailureValue

\* a boxscore call has returned False after three failed attempts
C33_Witness ==
    /\ kind = "boxscore" /\ pc = "done"
    /\ result = PyFalse
    /\ Len(tries) = 3
    /\ slept = <<3, 6, 9>>

-----------------------------------------------------------------------------
(* plugins/bronze_layer_2.py: the boxscore stage.                          *)

MaxGames == 10     \* longest game-id list of a partition
MaxBad == 1        \* how many game ids the upstream fails at least once

batch_size == 4
n_jobs == 4

Workers == 1..n_jobs
MainProcess == 0
NotBuilt == 0 - 1

Min(a, b) == IF a < b THEN a ELSE b

\* range(0, len(game_ids), batch_size)
RangeStarts(n) == {i \in 0..(n - 1) : i % batch_size = 0}

\* the slice one short: game_ids[i:i+batch_size-1]
SliceShort(ids, i) == SubSeq(ids, i + 1, Min(i + batch_size - 1, Len(ids)))

\* game_ids[i:i+batch_size] (i is 0-based, the slice stops at the end of the list)
Slice(ids, i) == SubSeq(ids, i + 1, Min(i + batch_size, Len(ids)))

\* [game_ids[i:i+batch_size] for i in range(0, len(game_ids), batch_size)]
BatchesOf(ids) ==
    [k \in 1..Cardinality(RangeStarts(Len(ids))) |-> Slice(ids, (k - 1) * batch_size)]

\* the ways an attempt of a failing game id fails
FailureEnvs == {"exception", "http_error_json", "upload_fail"}

\* the upstream of one game: a game id of u.bad has its first u.fails attempts
\* end as u.how and its later ones succeed, any other game id succeeds at once
EnvsOf(u, game_id) ==
    [k \in 1..max_retries |->
        IF game_id \in u.bad /\ k <= u.fails THEN u.how ELSE "ok"]

\* process_game_with_retry run to its return on the given upstream
RECURSIVE RetryLoop(_, _)
RetryLoop(st, envs) ==
    IF st.pc = "loop"
    THEN RetryLoop(BoxscoreAttempt(st, Head(envs)), Tail(envs))
    ELSE BoxscoreReturn(st)

process_game_with_retry(game_id) == RetryLoop(FetchStart, EnvsOf(upstream, game_id))

NoGame == [calls |-> 0, attempts |-> 0, writes |-> 0, errors |-> 0, ret |-> NoResult]

\* what one call of process_game_with_retry leaves behind for its game id
AfterCall(g, st) ==
    [calls |-> g.calls + 1,
     attempts |-> g.attempts + Len(st.tries),
     writes |-> g.writes + Len(st.writes),
     errors |-> g.errors + (IF st.retry_count >= max_retries THEN 1 ELSE 0),
     ret |-> st.result]

\* the objects a batch task works with and who built them:
\* session is built in process_game_batch, proxies and client in __init__
BatchUses(b) == [session |-> b, proxies |-> MainProcess, client |-> MainProcess]
NoUses == [session |-> NotBuilt, proxies |-> NotBuilt, client |-> NotBuilt]

\* the inputs of a boxscore stage
ScoreboardInputs ==
    {[exists |-> FALSE, ids |-> <<>>]} \cup
    {[exists |-> TRUE, ids |-> [i \in 1..n |-> i]] : n \in 0..MaxGames}

\* at most MaxBad game ids meet a failing upstream
BadSets(n) == {B \in SUBSET (1..n) : Cardinality(B) <= MaxBad}

UpstreamsFor(n) ==
    {[bad |-> {}, fails |-> 0, how |-> "ok"]} \cup
    [bad : BadSets(n) \ {{}}, fails : 1..max_retries, how : FailureEnvs]

InitBronze ==
    /\ FetchIdle /\ FlattenIdle /\ SilverIdle /\ StoreIdle /\ LoadIdle
    /\ DagIdle /\ BatchIdle /\ ClockIdle
    /\ stage = "start"
    /\ task = <<>> /\ worker = <<>> /\ runs = <<>> /\ uses = <<>>
    /\ scoreboard \in ScoreboardInputs
    /\ upstream \in UpstreamsFor(Len(scoreboard.ids))
    /\ game_ids = <<>>
    /\ game_batches = <<>>
    /\ game = [i \in 1..Len(scoreboard.ids) |-> NoGame]
    /\ batch_result = <<>>
    /\ stage_result = NoResult

\* batch_config up to the Parallel call: get_game_ids, the batches, one
\* delayed task per batch.  get_game_ids raises when the snapshot is missing.
BatchConfig ==
    /\ stage = "start"
    /\ IF scoreboard.exists
       THEN LET batches == BatchesOf(scoreboard.ids) IN
            /\ game_ids' = scoreboard.ids
            /\ game_batches' = batches
            /\ task' = [b \in 1..Len(batches) |-> "pending"]
            /\ worker' = [b \in 1..Len(batches) |-> 0]
            /\ runs' = [b \in 1..Len(batches) |-> 0]
            /\ uses' = [b \in 1..Len(batches) |-> NoUses]
            /\ batch_result' = [b \in 1..Len(batches) |-> NoResult]
            /\ stage' = "dispatch"
       ELSE /\ stage' = "raised"
            /\ UNCHANGED <<game_ids, game_batches, task, worker, runs, uses,
                           batch_result>>
    /\ UNCHANGED <<scoreboard, upstream, game, stage_result, notBronze>>

\* a worker process that is running no task
Idle(w) == \A b \in 1..Len(task) : ~(task[b] = "running" /\ worker[b] = w)

\* Parallel hands tasks out in the order of the list
NextPending(b) ==
    /\ task[b] = "pending"
    /\ \A c \in 1..(b - 1) : task[c] # "pending"

\* the worker processes are interchangeable: the lowest idle one takes the task
FreeWorker(w) == Idle(w) /\ \A v \in 1..(w - 1) : ~Idle(v)

\* Parallel(n_jobs=4): an idle worker takes the next task and starts
\* process_game_batch, which builds its session.
StartBatch(b, w) ==
    /\ stage = "dispatch"
    /\ NextPending(b)
    /\ FreeWorker(w)
    /\ task' = [task EXCEPT ![b] = "running"]
    /\ worker' = [worker EXCEPT ![b] = w]
    /\ runs' = [runs EXCEPT ![b] = @ + 1]
    /\ uses' = [uses EXCEPT ![b] = BatchUses(b)]
    /\ UNCHANGED <<stage, bronzeVars, notBronze>>

\* the loop leaving the batch at the first game id that fails
RECURSIVE ForEachGameStopOnFailure(_, _)
ForEachGameStopOnFailure(g, game_batch) ==
    IF game_batch = <<>>
    THEN g
    ELSE LET game_id == Head(game_batch)
             st == process_game_with_retry(game_id)
         IN  IF st.result = PyFalse
             THEN [g EXCEPT ![game_id] = AfterCall(@, st)]
             ELSE ForEachGameStopOnFailure([g EXCEPT ![game_id] = AfterCall(@, st)],
                                           Tail(game_batch))

\* the for loop of process_game_batch: process_game_with_retry for each game
\* id of the batch in list order, its return value dropped
RECURSIVE ForEachGame(_, _)
ForEachGame(g, game_batch) ==
    IF game_batch = <<>>
    THEN g
    ELSE LET game_id == Head(game_batch)
             st == process_game_with_retry(game_id)
         IN  ForEachGame([g EXCEPT ![game_id] = AfterCall(@, st)], Tail(game_batch))

\* process_game_batch had it returned how many of its game ids succeeded
ProcessGameBatchCountingSuccesses(b) ==
    /\ stage = "dispatch"
    /\ task[b] = "running"
    /\ game' = ForEachGame(game, game_batches[b])
    /\ batch_result' =
           [batch_result EXCEPT ![b] =
               Cardinality({j \in 1..Len(game_batches[b]) :
                               game'[game_batches[b][j]].ret = PyTrue})]
    /\ task' = [task EXCEPT ![b] = "done"]
    /\ UNCHANGED <<stage, worker, runs, uses, scoreboard, upstream, game_ids,
                   game_batches, stage_result, notBronze>>

\* process_game_batch from its loop to return len(game_batch)
ProcessGameBatch(b) ==
    /\ stage = "dispatch"
    /\ task[b] = "running"
    /\ game' = ForEachGame(game, game_batches[b])
    /\ batch_result' = [batch_result EXCEPT ![b] = Len(game_batches[b])]
    /\ task' = [task EXCEPT ![b] = "done"]
    /\ UNCHANGED <<stage, worker, runs, uses, scoreboard, upstream, game_ids,
                   game_batches, stage_result, notBronze>>

\* Parallel returns when every task has ended; batch_config returns its message
ReturnBatchConfig ==
    /\ stage = "dispatch"
    /\ \A b \in 1..Len(task) : task[b] = "done"
    /\ stage' = "done"
    /\ stage_result' = "Processing complete"
    /\ UNCHANGED <<task, worker, runs, uses, scoreboard, upstream, game_ids,
                   game_batches, game, batch_result, notBronze>>

NextBronze ==
    \/ BatchConfig
    \/ \E b \in 1..Len(task), w \in Workers : StartBatch(b, w)
    \/ \E b \in 1..Len(task) : ProcessGameBatch(b)
    \/ ReturnBatchConfig

SpecBronze == InitBronze /\ [][NextBronze]_vars

-----------------------------------------------------------------------------
(* Properties of the boxscore stage (SpecBronze).                          *)

\* the game ids for which process_game_with_retry returned False
FailedGames == {g \in 1..Len(game) : game[g].ret = PyFalse}

\* the game ids of batch b
GamesOf(b) == {game_batches[b][j] : j \in 1..Len(game_batches[b])}

\* C2: whatever game ids fail all their retries, every game id of a batch
\* that has ended was attempted, no batch task fails, a stage that is
\* dispatching can always go on, and at the end of the stage every game id
\* of the list has been attempted at least once.
C2_EveryGameAttempted ==
    /\ \A b \in 1..Len(task) :
          /\ task[b] # "failed"
          /\ task[b] = "done" =>
                \A g \in GamesOf(b) : game[g].calls >= 1 /\ game[g].attempts >= 1
    /\ stage = "dispatch" =>
          \/ \A b \in 1..Len(task) : task[b] = "done"
          \/ \E b \in 1..Len(task) : task[b] = "running"
          \/ \E b \in 1..Len(task), w \in Workers : NextPending(b) /\ FreeWorker(w)
    /\ stage = "raised" => task = <<>>
    /\ stage = "done" =>
          /\ \A b \in 1..Len(task) : task[b] = "done"
          /\ \A i \in 1..Len(game_ids) : game[game_ids[i]].attempts >= 1

\* a game id that is not the last of its batch failed all its retries, and
\* the stage, of several batches, has ended
C2_Witness ==
    /\ stage = "done"
    /\ Len(game_batches) >= 2
    /\ \E b \in 1..Len(game_batches) :
          /\ Len(game_batches[b]) >= 2
          /\ game_batches[b][1] \in FailedGames
          /\ game[game_batches[b][2]].attempts >= 1

\* C4 as stated: a game id that failed all 3 attempts wrote no snapshot and
\* has one recorded failure, and the result of its batch and of the stage
\* differs from the result they have when every game id succeeds.
C4_FailureInStageResult ==
    /\ \A g \in FailedGames : game[g].writes = 0 /\ game[g].errors = 1
    /\ \A b \in 1..Len(task) :
          (task[b] = "done" /\ GamesOf(b) \cap FailedGames # {}) =>
              batch_result[b] # Len(game_batches[b])
    /\ (stage = "done" /\ FailedGames # {}) => stage_result # "Processing complete"

\* C4 (amended): a game id that failed all 3 attempts wrote no snapshot, and
\* its failure is recorded once, as the one False returned by
\* process_game_with_retry and the one error line it prints; the batch still
\* returns its length and the stage still returns "Processing complete".
C4_FailureRecordedOnceNotInResult ==
    /\ \A g \in FailedGames :
          /\ game[g].attempts = 3
          /\ game[g].writes = 0
          /\ game[g].errors = 1
          /\ game[g].calls = 1
    /\ \A g \in 1..Len(game) : game[g].ret = PyTrue => game[g].errors = 0
    /\ \A b \in 1..Len(task) :
          task[b] = "done" => batch_result[b] = Len(game_batches[b])
    /\ stage = "done" => stage_result = "Processing complete"

C4_Witness ==
    /\ stage = "done"
    /\ FailedGames # {} /\ upstream.how = "http_error_json"
    /\ \E g \in 1..Len(game) : game[g].ret = PyTrue

\* the batches laid end to end
RECURSIVE Concat(_)
Concat(seqs) == IF seqs = <<>> THEN <<>> ELSE Head(seqs) \o Concat(Tail(seqs))

\* C8: batch_config cuts the list of n game ids into ceil(n/4) contiguous
\* batches of 4, the last one possibly shorter; the batches in order give
\* back the list and every id is in exactly one batch (10 ids: 4, 4, 2).
C8_ContiguousBatchesOfFour ==
    stage \in {"dispatch", "done"} =>
        LET n == Len(game_ids)
            nb == Len(game_batches)
        IN  /\ nb = (n + 3) \div 4
            /\ \A k \in 1..(nb - 1) : Len(game_batches[k]) = 4
            /\ nb > 0 => Len(game_batches[nb]) \in 1..4
            /\ Concat(game_batches) = game_ids
            /\ \A i \in 1..n :
                  Cardinality({k \in 1..nb : game_ids[i] \in GamesOf(k)}) = 1
            /\ n = 10 => [k \in 1..nb |-> Len(game_batches[k])] = <<4, 4, 2>>

C8_Witness ==
    /\ stage = "dispatch"
    /\ Len(game_ids) = 10
    /\ [k \in 1..Len(game_batches) |-> Len(game_batches[k])] = <<4, 4, 2>>

\* C10 as stated: every object a started task works with (HTTP session,
\* proxy configuration, storage client) was built by that task itself.
C10_WorkersBuildOwnClients ==
    \A b \in 1..Len(task) :
        task[b] # "pending" =>
            /\ uses[b].session = b
            /\ uses[b].proxies = b
            /\ uses[b].client = b

\* get_nba_boxscores: return result, 200
get_nba_boxscores == <<stage_result, 200>>

\* C28: once the game id list was obtained and every batch has ended,
\* get_nba_boxscores returns ("Processing complete", 200) however many game
\* ids failed all their retries; every ended batch returned its length, the
\* True / False of its game ids left unused.
C28_CompleteWhateverFailed ==
    /\ stage = "done" =>
          /\ get_nba_boxscores = <<"Processing complete", 200>>
          /\ \A b \in 1..Len(task) : task[b] = "done"
    /\ \A b \in 1..Len(task) :
          task[b] = "done" =>
              /\ batch_result[b] = Len(game_batches[b])
              /\ \A g \in GamesOf(b) : game[g].ret \in {PyTrue, PyFalse}
    /\ stage # "done" => stage_result = NoResult

\* the stage returned after three batches, one of them with a game id that
\* failed all its retries
C28_Witness ==
    /\ stage = "done"
    /\ Len(game_batches) = 3
    /\ \E b \in 1..Len(game_batches) :
          /\ GamesOf(b) \cap FailedGames # {}
          /\ batch_result[b] = Len(game_batches[b])
    /\ get_nba_boxscores = <<"Processing complete", 200>>

-----------------------------------------------------------------------------
(* plugins/bronze_layer_2.py: one call of process_game_batch, statement by *)
(* statement (SpecBatch).                                                  *)

\* the longest batch looked at
MaxItems == 3

\* time.sleep(0.1), in milliseconds
pacing_delay_ms == 100

\* what an attempt of a game id of the batch can meet
BatchEnvs == {"ok", "exception", "upload_fail"}

\* the lists of distinct game ids of length 1..MaxItems
GameBatches ==
    UNION {{q \in [1..n -> 1..MaxItems] :
               \A i, j \in 1..n : i # j => q[i] # q[j]} : n \in 1..MaxItems}

\* one entry of the record of what the call did
Event(ev, item, session, ms, ret) ==
    [ev |-> ev, item |-> item,
     game_id |-> IF item = 0 THEN 0 ELSE batch_loop.game_batch[item],
     session |-> session, ms |-> ms, ret |-> ret]

InitBatch ==
    /\ FetchIdle /\ PoolIdle /\ BronzeIdle /\ FlattenIdle /\ SilverIdle /\ StoreIdle
    /\ LoadIdle /\ DagIdle /\ ClockIdle
    /\ \E game_batch \in GameBatches :
          batch_loop = [at |-> "enter", game_batch |-> game_batch,
                        session |-> NotBuilt, made |-> 0, item |-> 0,
                        returned |-> NoResult]
    /\ events = <<>>

\* session = requests.Session()
BatchSession ==
    /\ batch_loop # <<>> /\ batch_loop.at = "enter"
    /\ batch_loop' = [batch_loop EXCEPT !.session = batch_loop.made + 1,
                                        !.made = @ + 1,
                                        !.item = 1,
                                        !.at = IF batch_loop.game_batch = <<>>
                                               THEN "return" ELSE "sleep"]
    /\ events' = Append(events, Event("session", 0, batch_loop.made + 1, 0, NoResult))
    /\ UNCHANGED <<fetchVars, notBatch>>

\* the loop calling process_game_with_retry with no sleep before it
BatchSleepSkipped ==
    /\ batch_loop # <<>> /\ batch_loop.at = "sleep"
    /\ batch_loop' = [batch_loop EXCEPT !.at = "call"]
    /\ events' = events
    /\ kind' = "boxscore"
    /\ SetFetch(FetchStart)
    /\ UNCHANGED notBatch

\* for game_id in game_batch: time.sleep(0.1), then process_game_with_retry
\* is entered with the session of the batch
BatchSleep ==
    /\ batch_loop # <<>> /\ batch_loop.at = "sleep"
    /\ batch_loop' = [batch_loop EXCEPT !.at = "call"]
    /\ events' = Append(events, Event("sleep", batch_loop.item, batch_loop.session,
                                      pacing_delay_ms, NoResult))
    /\ kind' = "boxscore"
    /\ SetFetch(FetchStart)
    /\ UNCHANGED notBatch

\* one iteration of the while loop of process_game_with_retry: session.get
\* and what follows it, up to the break or the end of the except branch
BatchGet ==
    /\ batch_loop # <<>> /\ batch_loop.at = "call" /\ pc = "loop"
    /\ \E env \in BatchEnvs : SetFetch(BoxscoreAttempt(FetchState, env))
    /\ events' = Append(events, Event("get", batch_loop.item, batch_loop.session, 0,
                                      NoResult))
    /\ UNCHANGED <<kind, batch_loop, notBatch>>

\* process_game_with_retry returns, its value is dropped, the loop goes on
\* to the next game id or ends
BatchCallEnd ==
    /\ batch_loop # <<>> /\ batch_loop.at = "call" /\ pc = "after"
    /\ SetFetch(BoxscoreReturn(FetchState))
    /\ events' = Append(events, Event("end", batch_loop.item, batch_loop.session, 0,
                                      BoxscoreReturn(FetchState).result))
    /\ batch_loop' =
          IF batch_loop.item < Len(batch_loop.game_batch)
          THEN [batch_loop EXCEPT !.item = @ + 1, !.at = "sleep"]
          ELSE [batch_loop EXCEPT !.at = "return"]
    /\ UNCHANGED <<kind, notBatch>>

\* return len(game_batch)
BatchReturn ==
    /\ batch_loop # <<>> /\ batch_loop.at = "return"
    /\ batch_loop' = [batch_loop EXCEPT !.at = "done",
                                        !.returned = Len(batch_loop.game_batch)]
    /\ UNCHANGED <<events, fetchVars, notBatch>>

NextBatch ==
    \/ BatchSession
    \/ BatchSleep
    \/ BatchGet
    \/ BatchCallEnd
    \/ BatchReturn

SpecBatch == InitBatch /\ [][NextBatch]_vars

-----------------------------------------------------------------------------
(* Properties of one call of process_game_batch (SpecBatch).               *)

\* the positions of the record at which the call did ev for item i
EventsOf(ev, i) == {k \in 1..Len(events) : events[k].ev = ev /\ events[k].item = i}

\* the call of item i has returned by position k of the record, with True
\* after a clean attempt or with False after max_retries attempts
EndedBefore(i, k) ==
    \E e \in EventsOf("end", i) :
        /\ e < k
        /\ LET gets == {g \in EventsOf("get", i) : g < e} IN
           \/ events[e].ret = PyTrue /\ gets # {}
           \/ events[e].ret = PyFalse /\ Cardinality(gets) = max_retries

\* a sleep of the pacing delay lies between positions e and k of the record
PacedBetween(e, k) ==
    \E p \in (e + 1)..(k - 1) :
        events[p].ev = "sleep" /\ events[p].ms = pacing_delay_ms

\* C31: within one batch every request goes out on the one session built at
\* the start of the batch, the game ids are requested in list order, the
\* request for an item never starts before the call of the previous item
\* has returned (True, or False after max_retries attempts), and a sleep of
\* 0.1 s lies between the end of an item and the first request of the next.
C31_OneAtATimeInListOrder ==
    /\ \A k \in 1..Len(events) :
          events[k].ev = "session" => k = 1
    /\ \A k \in 1..Len(events) :
          events[k].ev = "get" =>
             /\ events[1].ev = "session" /\ events[k].session = events[1].session
             /\ events[k].game_id = batch_loop.game_batch[events[k].item]
             /\ \A j \in 1..(k - 1) : events[j].item <= events[k].item
             /\ \A i \in 1..(events[k].item - 1) : EndedBefore(i, k)
             /\ events[k].item > 1 =>
                   \A e \in EventsOf("end", events[k].item - 1) : PacedBetween(e, k)

\* a batch of three game ids not in ascending order has returned, its first
\* game id having exhausted its retries and its second having succeeded
C31_Witness ==
    /\ batch_loop # <<>> /\ batch_loop.at = "done"
    /\ batch_loop.game_batch = <<3, 1, 2>>
    /\ batch_loop.returned = 3
    /\ \E e \in EventsOf("end", 1) : events[e].ret = PyFalse
    /\ \E e \in EventsOf("end", 2) : events[e].ret = PyTrue
    /\ EventsOf("get", 3) # {}

-----------------------------------------------------------------------------
(* scripts/silver_layer_1.py: documents and the six extractors.            *)

\* Python None: the value of dict.get for a key that is absent or null
None == [none |-> TRUE]
\* the empty dict {}
EmptyDict == [empty |-> TRUE]
\* a JSON array
List(items) == [list |-> items]

\* dict.get(key) where the value is a nested object
Get(d, key) == IF key \in DOMAIN d THEN d[key] ELSE None
\* dict.get(key) where the value is a scalar; "null" stands for None
Leaf(d, key) == IF key \in DOMAIN d THEN d[key] ELSE "null"
\* the truth value Python gives an object in "if x:"
Truthy(v) == v # None /\ v # EmptyDict /\ v # List(<<>>)

\* a statistics object whose rebounds add up
StatsA ==
    [minutes |-> "240:00",
     fieldGoalsMade |-> "40",
     fieldGoalsAttempted |-> "88",
     fieldGoalsPercentage |-> "0.455",
     threePointersMade |-> "12",
     threePointersAttempted |-> "35",
     threePointersPercentage |-> "0.343",
     freeThrowsMade |-> "18",
     freeThrowsAttempted |-> "22",
     freeThrowsPercentage |-> "0.818",
     reboundsOffensive |-> 10,
     reboundsDefensive |-> 33,
     reboundsTotal |-> 43,
     assists |-> "25",
     steals |-> "7",
     blocks |-> "5",
     turnovers |-> "13",
     foulsPersonal |-> "19",
     points |-> "110",
     plusMinusPoints |-> "8"]

\* a statistics object whose reboundsTotal is not offensive + defensive, with a null field
StatsB ==
    [minutes |-> "121:30",
     fieldGoalsMade |-> "21",
     fieldGoalsAttempted |-> "45",
     fieldGoalsPercentage |-> "0.467",
     threePointersMade |-> "6",
     threePointersAttempted |-> "17",
     threePointersPercentage |-> "0.353",
     freeThrowsMade |-> "9",
     freeThrowsAttempted |-> "11",
     freeThrowsPercentage |-> "0.818",
     reboundsOffensive |-> 4,
     reboundsDefensive |-> 15,
     reboundsTotal |-> 21,
     assists |-> "12",
     steals |-> "3",
     blocks |-> "null",
     turnovers |-> "6",
     foulsPersonal |-> "9",
     points |-> "57",
     plusMinusPoints |-> "-3"]

\* the meta object of a response
Meta1 == [version |-> "1", request |-> "http://nba.cloud/games/0022400752/boxscore", time |-> "2025-02-10T02:00:00Z"]

\* roster entries: one with statistics, one without the statistics key
Player1 ==
    [personId |-> "201939", firstName |-> "Stephen", familyName |-> "Curry",
     nameI |-> "S. Curry", playerSlug |-> "stephen-curry", position |-> "G",
     comment |-> "", jerseyNum |-> "30", statistics |-> StatsA]
Player2 ==
    [personId |-> "1630228", firstName |-> "Jonathan", familyName |-> "Kuminga",
     nameI |-> "J. Kuminga", playerSlug |-> "jonathan-kuminga", position |-> "null",
     comment |-> "DNP - Coach's Decision", jerseyNum |-> "00"]

Player3 ==
    [personId |-> "2544", firstName |-> "LeBron", familyName |-> "James",
     nameI |-> "L. James", playerSlug |-> "lebron-james", position |-> "F",
     comment |-> "", jerseyNum |-> "23", statistics |-> StatsB]

MaxRoster == 2     \* longest players array of a team

MetaVals == {None, EmptyDict, Meta1}

\* the players arrays a team can carry, built from the given roster entries
Rosters(entries) ==
    {None} \cup {List(r) : r \in UNION {[1..k -> entries] : k \in 0..MaxRoster}}

\* the homeTeam / awayTeam objects a document can carry; the two teams of a
\* game have different statistics, starters and roster entries
TeamVals(id, city, name, tricode, slug, statistics, starters, entries) ==
    {None, EmptyDict} \cup
    [teamId : {id}, teamCity : {city}, teamName : {name}, teamTricode : {tricode},
     teamSlug : {slug}, statistics : {None, statistics}, starters : {None, starters},
     players : Rosters(entries)]

HomeTeams ==
    TeamVals("1610612744", "Golden State", "Warriors", "GSW", "warriors",
             StatsA, StatsB, {Player1, Player2})
AwayTeams ==
    TeamVals("1610612747", "Los Angeles", "Lakers", "LAL", "lakers",
             StatsB, StatsA, {Player3, Player2})

BoxVals ==
    {None, EmptyDict} \cup
    [gameId : {"0022400752"}, awayTeamId : {"1610612747"}, homeTeamId : {"1610612744"},
     homeTeam : HomeTeams, awayTeam : AwayTeams]

\* the documents json.loads can return from a snapshot
Docs == [meta : MetaVals, boxScoreTraditional : BoxVals]

\* the record literal of extract_meta_data
MetaRecord(meta, source_file, game_date) ==
    [block_type |-> "meta",
     version |-> Leaf(meta, "version"),
     request |-> Leaf(meta, "request"),
     time |-> Leaf(meta, "time"),
     source_file |-> source_file,
     game_date |-> game_date]

\* the record literal of extract_game_header
GameHeaderRecord(boxscore, source_file, game_date) ==
    [block_type |-> "game_header",
     game_id |-> Leaf(boxscore, "gameId"),
     away_team_id |-> Leaf(boxscore, "awayTeamId"),
     home_team_id |-> Leaf(boxscore, "homeTeamId"),
     source_file |-> source_file,
     game_date |-> game_date]

\* the record literal of extract_team_info (home block; the away block is the same with away_team and False)
TeamInfoRecord(game_id, team, is_home_team, source_file, game_date) ==
    [block_type |-> "team_info",
     game_id |-> game_id,
     team_id |-> Leaf(team, "teamId"),
     team_city |-> Leaf(team, "teamCity"),
     team_name |-> Leaf(team, "teamName"),
     team_tricode |-> Leaf(team, "teamTricode"),
     team_slug |-> Leaf(team, "teamSlug"),
     is_home_team |-> is_home_team,
     source_file |-> source_file,
     game_date |-> game_date]

\* the home / away record literal of extract_team_statistics had it computed
\* rebounds_total as offensive + defensive
TeamStatisticsRecordSummed(game_id, team, stats, is_home_team, source_file, game_date) ==
    [block_type |-> "team_statistics",
     game_id |-> game_id,
     team_id |-> Leaf(team, "teamId"),
     is_home_team |-> is_home_team,
     minutes |-> Leaf(stats, "minutes"),
     field_goals_made |-> Leaf(stats, "fieldGoalsMade"),
     field_goals_attempted |-> Leaf(stats, "fieldGoalsAttempted"),
     field_goals_percentage |-> Leaf(stats, "fieldGoalsPercentage"),
     three_pointers_made |-> Leaf(stats, "threePointersMade"),
     three_pointers_attempted |-> Leaf(stats, "threePointersAttempted"),
     three_pointers_percentage |-> Leaf(stats, "threePointersPercentage"),
     free_throws_made |-> Leaf(stats, "freeThrowsMade"),
     free_throws_attempted |-> Leaf(stats, "freeThrowsAttempted"),
     free_throws_percentage |-> Leaf(stats, "freeThrowsPercentage"),
     rebounds_offensive |-> Leaf(stats, "reboundsOffensive"),
     rebounds_defensive |-> Leaf(stats, "reboundsDefensive"),
     rebounds_total |-> Leaf(stats, "reboundsOffensive") + Leaf(stats, "reboundsDefensive"),
     assists |-> Leaf(stats, "assists"),
     steals |-> Leaf(stats, "steals"),
     blocks |-> Leaf(stats, "blocks"),
     turnovers |-> Leaf(stats, "turnovers"),
     fouls_personal |-> Leaf(stats, "foulsPersonal"),
     points |-> Leaf(stats, "points"),
     plus_minus_points |-> Leaf(stats, "plusMinusPoints"),
     source_file |-> source_file,
     game_date |-> game_date]

\* the record literal of extract_team_statistics (home block; the away block is the same with away_team, away_stats and False)
TeamStatisticsRecord(game_id, team, stats, is_home_team, source_file, game_date) ==
    [block_type |-> "team_statistics",
     game_id |-> game_id,
     team_id |-> Leaf(team, "teamId"),
     is_home_team |-> is_home_team,
     minutes |-> Leaf(stats, "minutes"),
     field_goals_made |-> Leaf(stats, "fieldGoalsMade"),
     field_goals_attempted |-> Leaf(stats, "fieldGoalsAttempted"),
     field_goals_percentage |-> Leaf(stats, "fieldGoalsPercentage"),
     three_pointers_made |-> Leaf(stats, "threePointersMade"),
     three_pointers_attempted |-> Leaf(stats, "threePointersAttempted"),
     three_pointers_percentage |-> Leaf(stats, "threePointersPercentage"),
     free_throws_made |-> Leaf(stats, "freeThrowsMade"),
     free_throws_attempted |-> Leaf(stats, "freeThrowsAttempted"),
     free_throws_percentage |-> Leaf(stats, "freeThrowsPercentage"),
     rebounds_offensive |-> Leaf(stats, "reboundsOffensive"),
     rebounds_defensive |-> Leaf(stats, "reboundsDefensive"),
     rebounds_total |-> Leaf(stats, "reboundsTotal"),
     assists |-> Leaf(stats, "assists"),
     steals |-> Leaf(stats, "steals"),
     blocks |-> Leaf(stats, "blocks"),
     turnovers |-> Leaf(stats, "turnovers"),
     fouls_personal |-> Leaf(stats, "foulsPersonal"),
     points |-> Leaf(stats, "points"),
     plus_minus_points |-> Leaf(stats, "plusMinusPoints"),
     source_file |-> source_file,
     game_date |-> game_date]

\* the record literal of extract_team_starters (home block; the away block is the same with away_team, away_starters and False)
TeamStartersRecord(game_id, team, starters, is_home_team, source_file, game_date) ==
    [block_type |-> "team_starters",
     game_id |-> game_id,
     team_id |-> Leaf(team, "teamId"),
     is_home_team |-> is_home_team,
     minutes |-> Leaf(starters, "minutes"),
     field_goals_made |-> Leaf(starters, "fieldGoalsMade"),
     field_goals_attempted |-> Leaf(starters, "fieldGoalsAttempted"),
     field_goals_percentage |-> Leaf(starters, "fieldGoalsPercentage"),
     three_pointers_made |-> Leaf(starters, "threePointersMade"),
     three_pointers_attempted |-> Leaf(starters, "threePointersAttempted"),
     three_pointers_percentage |-> Leaf(starters, "threePointersPercentage"),
     free_throws_made |-> Leaf(starters, "freeThrowsMade"),
     free_throws_attempted |-> Leaf(starters, "freeThrowsAttempted"),
     free_throws_percentage |-> Leaf(starters, "freeThrowsPercentage"),
     rebounds_offensive |-> Leaf(starters, "reboundsOffensive"),
     rebounds_defensive |-> Leaf(starters, "reboundsDefensive"),
     rebounds_total |-> Leaf(starters, "reboundsTotal"),
     assists |-> Leaf(starters, "assists"),
     steals |-> Leaf(starters, "steals"),
     blocks |-> Leaf(starters, "blocks"),
     turnovers |-> Leaf(starters, "turnovers"),
     fouls_personal |-> Leaf(starters, "foulsPersonal"),
     points |-> Leaf(starters, "points"),
     source_file |-> source_file,
     game_date |-> game_date]

\* the record literal of extract_player_statistics (home loop; the away loop is the same with away_team_id and False)
PlayerStatisticsRecord(game_id, team_id, i, player, stats, is_home_team, source_file, game_date) ==
    [block_type |-> "player_statistics",
     game_id |-> game_id,
     team_id |-> team_id,
     is_home_team |-> is_home_team,
     player_index |-> i,
     person_id |-> Leaf(player, "personId"),
     first_name |-> Leaf(player, "firstName"),
     family_name |-> Leaf(player, "familyName"),
     name_i |-> Leaf(player, "nameI"),
     player_slug |-> Leaf(player, "playerSlug"),
     position |-> Leaf(player, "position"),
     comment |-> Leaf(player, "comment"),
     jersey_num |-> Leaf(player, "jerseyNum"),
     minutes |-> Leaf(stats, "minutes"),
     field_goals_made |-> Leaf(stats, "fieldGoalsMade"),
     field_goals_attempted |-> Leaf(stats, "fieldGoalsAttempted"),
     field_goals_percentage |-> Leaf(stats, "fieldGoalsPercentage"),
     three_pointers_made |-> Leaf(stats, "threePointersMade"),
     three_pointers_attempted |-> Leaf(stats, "threePointersAttempted"),
     three_pointers_percentage |-> Leaf(stats, "threePointersPercentage"),
     free_throws_made |-> Leaf(stats, "freeThrowsMade"),
     free_throws_attempted |-> Leaf(stats, "freeThrowsAttempted"),
     free_throws_percentage |-> Leaf(stats, "freeThrowsPercentage"),
     rebounds_offensive |-> Leaf(stats, "reboundsOffensive"),
     rebounds_defensive |-> Leaf(stats, "reboundsDefensive"),
     rebounds_total |-> Leaf(stats, "reboundsTotal"),
     assists |-> Leaf(stats, "assists"),
     steals |-> Leaf(stats, "steals"),
     blocks |-> Leaf(stats, "blocks"),
     turnovers |-> Leaf(stats, "turnovers"),
     fouls_personal |-> Leaf(stats, "foulsPersonal"),
     points |-> Leaf(stats, "points"),
     plus_minus_points |-> Leaf(stats, "plusMinusPoints"),
     source_file |-> source_file,
     game_date |-> game_date]

\* What the try body of an extractor leaves: the records appended so far and
\* whether an exception ended it.
Ran(records) == [records |-> records, error |-> FALSE]
Broke(records) == [records |-> records, error |-> TRUE]

\* except Exception as e: print(...), then return records
Caught(t) == [records |-> t.records, raised |-> FALSE]
\* the same body with no except clause around it
Uncaught(t) == [records |-> t.records, raised |-> t.error]

\* the try body of extract_meta_data had it read boxScoreTraditional first
meta_data_try_after_boxscore(data, source_file, game_date) ==
    LET meta == Get(data, "meta")
        boxscore == Get(data, "boxScoreTraditional")
    IN  IF Truthy(boxscore) /\ Truthy(meta)
        THEN Ran(<<MetaRecord(meta, source_file, game_date)>>)
        ELSE Ran(<<>>)

\* try body of extract_meta_data
meta_data_try(data, source_file, game_date) ==
    LET meta == Get(data, "meta")
    IN  IF Truthy(meta)
        THEN Ran(<<MetaRecord(meta, source_file, game_date)>>)
        ELSE Ran(<<>>)

extract_meta_data(data, source_file, game_date) ==
    Caught(meta_data_try(data, source_file, game_date))

\* try body of extract_game_header
game_header_try(data, source_file, game_date) ==
    LET boxscore == Get(data, "boxScoreTraditional")
    IN  IF Truthy(boxscore)
        THEN Ran(<<GameHeaderRecord(boxscore, source_file, game_date)>>)
        ELSE Ran(<<>>)

extract_game_header(data, source_file, game_date) ==
    Caught(game_header_try(data, source_file, game_date))

\* the try body of extract_team_info without its away block
team_info_try_home_only(data, source_file, game_date) ==
    LET boxscore == Get(data, "boxScoreTraditional")
    IN  IF boxscore = None THEN Broke(<<>>) ELSE
    LET game_id == Leaf(boxscore, "gameId")
        home_team == Get(boxscore, "homeTeam")
    IN  Ran(IF Truthy(home_team)
            THEN <<TeamInfoRecord(game_id, home_team, TRUE, source_file, game_date)>>
            ELSE <<>>)

\* try body of extract_team_info; boxscore.get raises when boxscore is None
team_info_try(data, source_file, game_date) ==
    LET boxscore == Get(data, "boxScoreTraditional")
    IN  IF boxscore = None THEN Broke(<<>>) ELSE
    LET game_id == Leaf(boxscore, "gameId")
        home_team == Get(boxscore, "homeTeam")
        home == IF Truthy(home_team)
                THEN <<TeamInfoRecord(game_id, home_team, TRUE, source_file, game_date)>>
                ELSE <<>>
        away_team == Get(boxscore, "awayTeam")
        away == IF Truthy(away_team)
                THEN <<TeamInfoRecord(game_id, away_team, FALSE, source_file, game_date)>>
                ELSE <<>>
    IN  Ran(home \o away)

extract_team_info(data, source_file, game_date) ==
    Caught(team_info_try(data, source_file, game_date))

\* try body of extract_team_statistics; x.get raises when x is None
team_statistics_try(data, source_file, game_date) ==
    LET boxscore == Get(data, "boxScoreTraditional")
    IN  IF boxscore = None THEN Broke(<<>>) ELSE
    LET game_id == Leaf(boxscore, "gameId")
        home_team == Get(boxscore, "homeTeam")
    IN  IF home_team = None THEN Broke(<<>>) ELSE
    LET home_stats == Get(home_team, "statistics")
        home == IF Truthy(home_stats)
                THEN <<TeamStatisticsRecord(game_id, home_team, home_stats, TRUE,
                                            source_file, game_date)>>
                ELSE <<>>
        away_team == Get(boxscore, "awayTeam")
    IN  IF away_team = None THEN Broke(home) ELSE
    LET away_stats == Get(away_team, "statistics")
        away == IF Truthy(away_stats)
                THEN <<TeamStatisticsRecord(game_id, away_team, away_stats, FALSE,
                                            source_file, game_date)>>
                ELSE <<>>
    IN  Ran(home \o away)

\* extract_team_statistics with no try/except around its body
extract_team_statistics_uncaught(data, source_file, game_date) ==
    Uncaught(team_statistics_try(data, source_file, game_date))

extract_team_statistics(data, source_file, game_date) ==
    Caught(team_statistics_try(data, source_file, game_date))

\* try body of extract_team_starters; x.get raises when x is None
team_starters_try(data, source_file, game_date) ==
    LET boxscore == Get(data, "boxScoreTraditional")
    IN  IF boxscore = None THEN Broke(<<>>) ELSE
    LET game_id == Leaf(boxscore, "gameId")
        home_team == Get(boxscore, "homeTeam")
    IN  IF home_team = None THEN Broke(<<>>) ELSE
    LET home_starters == Get(home_team, "starters")
        home == IF Truthy(home_starters)
                THEN <<TeamStartersRecord(game_id, home_team, home_starters, TRUE,
                                          source_file, game_date)>>
                ELSE <<>>
        away_team == Get(boxscore, "awayTeam")
    IN  IF away_team = None THEN Broke(home) ELSE
    LET away_starters == Get(away_team, "starters")
        away == IF Truthy(away_starters)
                THEN <<TeamStartersRecord(game_id, away_team, away_starters, FALSE,
                                          source_file, game_date)>>
                ELSE <<>>
    IN  Ran(home \o away)

extract_team_starters(data, source_file, game_date) ==
    Caught(team_starters_try(data, source_file, game_date))

\* for i, player in enumerate(team.get('players')): from the entry at 0-based
\* index i on; stats.get raises when the entry has no statistics
\* the loop leaving out the last entry of the roster
RECURSIVE PlayerLoopSkipsLast(_, _, _, _, _, _, _, _)
PlayerLoopSkipsLast(records, players, i, game_id, team_id, is_home_team, source_file, game_date) ==
    IF i >= Len(players) - 1 THEN Ran(records) ELSE
    LET player == players[i + 1]
        stats == Get(player, "statistics")
    IN  IF stats = None THEN Broke(records) ELSE
        PlayerLoopSkipsLast(Append(records,
                          PlayerStatisticsRecord(game_id, team_id, i, player, stats,
                                                 is_home_team, source_file, game_date)),
                   players, i + 1, game_id, team_id, is_home_team, source_file,
                   game_date)

\* the loop numbering the entries from 1
RECURSIVE PlayerLoopOneBased(_, _, _, _, _, _, _, _)
PlayerLoopOneBased(records, players, i, game_id, team_id, is_home_team, source_file, game_date) ==
    IF i >= Len(players) THEN Ran(records) ELSE
    LET player == players[i + 1]
        stats == Get(player, "statistics")
    IN  IF stats = None THEN Broke(records) ELSE
        PlayerLoopOneBased(Append(records,
                          PlayerStatisticsRecord(game_id, team_id, i + 1, player, stats,
                                                 is_home_team, source_file, game_date)),
                   players, i + 1, game_id, team_id, is_home_team, source_file,
                   game_date)

RECURSIVE PlayerLoop(_, _, _, _, _, _, _, _)
PlayerLoop(records, players, i, game_id, team_id, is_home_team, source_file, game_date) ==
    IF i >= Len(players) THEN Ran(records) ELSE
    LET player == players[i + 1]
        stats == Get(player, "statistics")
    IN  IF stats = None THEN Broke(records) ELSE
        PlayerLoop(Append(records,
                          PlayerStatisticsRecord(game_id, team_id, i, player, stats,
                                                 is_home_team, source_file, game_date)),
                   players, i + 1, game_id, team_id, is_home_team, source_file,
                   game_date)

\* try body of extract_player_statistics; enumerate(None) raises
player_statistics_try(data, source_file, game_date) ==
    LET boxscore == Get(data, "boxScoreTraditional")
    IN  IF boxscore = None THEN Broke(<<>>) ELSE
    LET game_id == Leaf(boxscore, "gameId")
        home_team == Get(boxscore, "homeTeam")
    IN  IF home_team = None THEN Broke(<<>>) ELSE
    LET home_team_id == Leaf(home_team, "teamId")
        home_players == Get(home_team, "players")
    IN  IF home_players = None THEN Broke(<<>>) ELSE
    LET home == PlayerLoop(<<>>, home_players.list, 0, game_id, home_team_id, TRUE,
                           source_file, game_date)
    IN  IF home.error THEN home ELSE
    LET away_team == Get(boxscore, "awayTeam")
    IN  IF away_team = None THEN Broke(home.records) ELSE
    LET away_team_id == Leaf(away_team, "teamId")
        away_players == Get(away_team, "players")
    IN  IF away_players = None THEN Broke(home.records) ELSE
        PlayerLoop(home.records, away_players.list, 0, game_id, away_team_id, FALSE,
                   source_file, game_date)

extract_player_statistics(data, source_file, game_date) ==
    Caught(player_statistics_try(data, source_file, game_date))

-----------------------------------------------------------------------------
(* scripts/silver_layer_1.py: process_single_file                          *)

\* a path segment "name=value", or a plain segment (name "")
Segment(name, value) == [name |-> name, value |-> value]

\* blob names of snapshot objects, as their '/'-separated parts
BlobPath(year, month, day, filename) ==
    <<Segment("year", year), Segment("month", month), Segment("day", day),
      Segment("", filename)>>

BlobNames ==
    {BlobPath("2025", "02", "09", "0022400752.parquet"),
     <<Segment("", "0022400752.parquet")>>}

\* the value set by the loop over the parts for one of year=, month=, day=
\* (the last such part wins; "" when there is none)
PartValue(parts, name) ==
    LET at == {i \in 1..Len(parts) : parts[i].name = name}
    IN  IF at = {} THEN ""
        ELSE parts[CHOOSE i \in at : \A j \in at : j <= i].value

\* the value left as it is
NoFill(s) == s

\* str.zfill(2)
Zfill2(s) == IF Len(s) >= 2 THEN s ELSE IF Len(s) = 1 THEN "0" \o s ELSE "00"

\* game_date from the path of the blob
GameDate(blob_name) ==
    LET year == PartValue(blob_name, "year")
        month == PartValue(blob_name, "month")
        day == PartValue(blob_name, "day")
    IN  IF year # "" /\ month # "" /\ day # ""
        THEN year \o "-" \o Zfill2(month) \o "-" \o Zfill2(day)
        ELSE PyNone

\* the order in which process_single_file calls the extractors
ExtractorOrder ==
    <<"meta", "game_header", "team_info", "team_statistics", "team_starters",
      "player_statistics">>

RunExtractor(name, data, source_file, game_date) ==
    CASE name = "meta" -> extract_meta_data(data, source_file, game_date)
      [] name = "game_header" -> extract_game_header(data, source_file, game_date)
      [] name = "team_info" -> extract_team_info(data, source_file, game_date)
      [] name = "team_statistics" -> extract_team_statistics(data, source_file, game_date)
      [] name = "team_starters" -> extract_team_starters(data, source_file, game_date)
      [] name = "player_statistics" ->
             extract_player_statistics(data, source_file, game_date)

\* the local state of one call of process_single_file
\*   at: "read", an index into ExtractorOrder, "returned" or "raised"
FileStart == [at |-> 0, all_records |-> <<>>, raised |-> FALSE, returned |-> FALSE]

\* download_to_file, read_parquet, iloc[0]['raw_response'], json.loads: any
\* of them raising leaves process_single_file (nothing catches it)
ReadSnapshot(f, snap) ==
    IF snap.readable
    THEN [f EXCEPT !.at = 1]
    ELSE [f EXCEPT !.raised = TRUE]

\* the order of the extractor calls of a pass: the one of the source, unless
\* the pass is given another
OrderOf(f) == IF "order" \in DOMAIN f THEN f.order ELSE ExtractorOrder

\* all_records = extract_...(...): each result replacing the list
ExtendStepAssign(f, snap) ==
    LET r == RunExtractor(OrderOf(f)[f.at], snap.data, snap.name, GameDate(snap.name))
    IN  IF r.raised
        THEN [f EXCEPT !.raised = TRUE]
        ELSE [f EXCEPT !.all_records = r.records,
                       !.at = @ + 1,
                       !.returned = (f.at = Len(ExtractorOrder))]

\* the extractors given the file name without its path as source_file
ExtendStepFileNameOnly(f, snap) ==
    LET r == RunExtractor(OrderOf(f)[f.at], snap.data,
                          <<snap.name[Len(snap.name)]>>, GameDate(snap.name))
    IN  IF r.raised
        THEN [f EXCEPT !.raised = TRUE]
        ELSE [f EXCEPT !.all_records = @ \o r.records,
                       !.at = @ + 1,
                       !.returned = (f.at = Len(ExtractorOrder))]

\* all_records.extend(extract_...(data, blob_name, game_date))
ExtendStep(f, snap) ==
    LET r == RunExtractor(OrderOf(f)[f.at], snap.data, snap.name, GameDate(snap.name))
    IN  IF r.raised
        THEN [f EXCEPT !.raised = TRUE]
        ELSE [f EXCEPT !.all_records = @ \o r.records,
                       !.at = @ + 1,
                       !.returned = (f.at = Len(ExtractorOrder))]

\* process_single_file run from any point to its end
RECURSIVE RunFile(_, _)
RunFile(f, snap) ==
    IF f.raised \/ f.returned THEN f
    ELSE IF f.at = 0 THEN RunFile(ReadSnapshot(f, snap), snap)
    ELSE RunFile(ExtendStep(f, snap), snap)

process_single_file(snap) == RunFile(FileStart, snap)

\* the snapshot objects a partition can hold
Blobs == [name : BlobNames, readable : BOOLEAN, data : Docs]

(* SpecFlatten: one call of process_single_file, statement by statement.   *)

InitFlatten ==
    /\ FetchIdle /\ PoolIdle /\ BronzeIdle /\ SilverIdle /\ StoreIdle /\ LoadIdle
    /\ DagIdle /\ BatchIdle /\ ClockIdle
    /\ blob \in Blobs
    /\ (~blob.readable) => blob.data = [meta |-> None, boxScoreTraditional |-> None]
    /\ file = FileStart

Download ==
    /\ ~file.raised /\ ~file.returned /\ file.at = 0
    /\ file' = ReadSnapshot(file, blob)
    /\ UNCHANGED <<blob, notFlatten>>

Extend ==
    /\ ~file.raised /\ ~file.returned /\ file.at > 0
    /\ file' = ExtendStep(file, blob)
    /\ UNCHANGED <<blob, notFlatten>>

NextFlatten ==
    \/ Download
    \/ Extend

SpecFlatten == InitFlatten /\ [][NextFlatten]_vars

-----------------------------------------------------------------------------
(* Properties of process_single_file and the extractors (SpecFlatten).     *)

\* the document, its provenance, and the objects on the extractors' paths
TheData == blob.data
TheDate == GameDate(blob.name)
TheBox == Get(TheData, "boxScoreTraditional")
TheHome == Get(TheBox, "homeTeam")
TheAway == Get(TheBox, "awayTeam")

\* what each extractor returns for the document when called on its own
Alone(name) == RunExtractor(name, TheData, blob.name, TheDate)

\* a roster that is absent or has an entry without statistics
RosterGap(team) ==
    LET players == Get(team, "players")
    IN  \/ players = None
        \/ \E i \in 1..Len(players.list) : Get(players.list[i], "statistics") = None

\* an expected key on the fixed path of the extractor is absent
PathGap(name) ==
    LET teams == TheBox = None \/ TheHome = None \/ TheAway = None
    IN  CASE name = "meta" -> Get(TheData, "meta") = None
          [] name = "game_header" -> TheBox = None
          [] name = "team_info" -> teams
          [] name = "team_statistics" ->
                 \/ teams
                 \/ Get(TheHome, "statistics") = None
                 \/ Get(TheAway, "statistics") = None
          [] name = "team_starters" ->
                 \/ teams
                 \/ Get(TheHome, "starters") = None
                 \/ Get(TheAway, "starters") = None
          [] name = "player_statistics" ->
                 teams \/ RosterGap(TheHome) \/ RosterGap(TheAway)

ExtractorNames == {ExtractorOrder[i] : i \in 1..Len(ExtractorOrder)}

\* C6 as stated: on every document no extractor raises to its caller, and an
\* extractor whose path lacks an expected key returns the empty record set.
C6_GapGivesEmptySet ==
    (file.at >= 1) =>
        \A name \in ExtractorNames :
            /\ ~Alone(name).raised
            /\ PathGap(name) => Alone(name).records = <<>>

\* the records of one variant within a record list
OfType(records, name) ==
    LET IsOfType(r) == r.block_type = name
    IN  SelectSeq(records, IsOfType)

\* C7: process_single_file on a readable snapshot never raises, and the
\* records it returns are, variant by variant, exactly the records each of
\* the six extractors yields on its own, whichever extractors hit an error.
C7_DocumentIsUnionOfExtractors ==
    blob.readable =>
        /\ ~file.raised
        /\ file.returned =>
              /\ \A name \in ExtractorNames :
                    OfType(file.all_records, name) = Alone(name).records
              /\ \A i \in 1..Len(file.all_records) :
                    file.all_records[i].block_type \in ExtractorNames

\* team_statistics broke after its home record, player_statistics broke too,
\* and the document still carries the meta, header and team_info records
C7_Witness ==
    /\ file.returned
    /\ team_statistics_try(TheData, blob.name, TheDate).error
    /\ player_statistics_try(TheData, blob.name, TheDate).error
    /\ Len(OfType(file.all_records, "meta")) = 1
    /\ Len(OfType(file.all_records, "game_header")) = 1
    /\ Len(OfType(file.all_records, "team_info")) = 1
    /\ Len(OfType(file.all_records, "team_statistics")) = 1

\* the records of one extractor in what process_single_file returned
Returned(name) == OfType(file.all_records, name)

\* the players arrays of the two teams (None when a key on the way is absent)
HomeRoster == Get(TheHome, "players")
AwayRoster == Get(TheAway, "players")
RostersPresent == HomeRoster # None /\ AwayRoster # None

\* how many leading entries of a roster have a statistics object
Leading(players) ==
    LET gaps == {i \in 1..Len(players) : Get(players[i], "statistics") = None}
    IN  IF gaps = {} THEN Len(players)
        ELSE (CHOOSE i \in gaps : \A j \in gaps : i <= j) - 1

\* the records of one team among the player records
OfSide(records, side) ==
    LET IsOfSide(r) == r.is_home_team = side
    IN  SelectSeq(records, IsOfSide)

C19_PlayerIndexContiguous ==
    file.returned =>
        \A side \in BOOLEAN :
            LET recs == OfSide(Returned("player_statistics"), side)
                roster == IF side THEN HomeRoster ELSE AwayRoster
            IN  /\ recs # <<>> => (roster # None /\ Len(recs) <= Len(roster.list))
                /\ \A j \in 1..Len(recs) :
                      /\ recs[j].player_index = j - 1
                      /\ recs[j].person_id = Leaf(roster.list[j], "personId")
                      /\ recs[j].minutes = Leaf(Get(roster.list[j], "statistics"), "minutes")

\* two home records, and one away record of a roster that breaks at its
\* second entry
C19_Witness ==
    /\ file.returned /\ RostersPresent
    /\ Len(AwayRoster.list) = 2
    /\ Len(OfSide(Returned("player_statistics"), TRUE)) = 2
    /\ Len(OfSide(Returned("player_statistics"), FALSE)) = 1
    /\ [j \in 1..2 |-> OfSide(Returned("player_statistics"), TRUE)[j].player_index]
           = <<0, 1>>
    /\ OfSide(Returned("player_statistics"), FALSE)[1].player_index = 0

TeamScoped == {"team_info", "team_statistics", "team_starters"}

\* the key of a team object a team-scoped extractor builds its record from
TeamPart(name, team) ==
    CASE name = "team_info" -> team
      [] name = "team_statistics" -> Get(team, "statistics")
      [] name = "team_starters" -> Get(team, "starters")

\* the records of a team-scoped extractor are the home and the away record
HomeAndAway(recs) ==
    /\ Len(recs) = 2
    /\ recs[1].is_home_team = TRUE /\ recs[1].team_id = Leaf(TheHome, "teamId")
    /\ recs[2].is_home_team = FALSE /\ recs[2].team_id = Leaf(TheAway, "teamId")

WithoutBox(data) == [data EXCEPT !.boxScoreTraditional = None]

\* the extractors whose path starts at boxScoreTraditional
BoxRooted == ExtractorNames \ {"meta"}

\* C21: for the document of a flattened file with boxScoreTraditional removed,
\* game_header, team_info, team_statistics, team_starters and
\* player_statistics each return the empty set without raising, and
\* extract_meta_data returns what it returns for the unmodified document; a
\* file whose document lacks the key yields the metadata records only.
C21_NoBoxOnlyMeta ==
    (blob.readable /\ file.returned) =>
        /\ \A name \in BoxRooted :
               LET out == RunExtractor(name, WithoutBox(TheData), blob.name, TheDate)
               IN  out.records = <<>> /\ ~out.raised
        /\ extract_meta_data(WithoutBox(TheData), blob.name, TheDate)
               = extract_meta_data(TheData, blob.name, TheDate)
        /\ \A box \in BoxVals :
               TheBox = None =>
                   Returned("meta") =
                       extract_meta_data([TheData EXCEPT !.boxScoreTraditional = box],
                                         blob.name, TheDate).records
        /\ TheBox = None => file.all_records = Returned("meta")

\* a flattened file whose document lacks boxScoreTraditional and has metadata
C21_Witness ==
    /\ file.returned
    /\ TheBox = None
    /\ Len(Returned("meta")) = 1
    /\ file.all_records = Returned("meta")

\* the statistical fields of a record and the source key each is read from
StatKeys ==
    [minutes |-> "minutes",
     field_goals_made |-> "fieldGoalsMade",
     field_goals_attempted |-> "fieldGoalsAttempted",
     field_goals_percentage |-> "fieldGoalsPercentage",
     three_pointers_made |-> "threePointersMade",
     three_pointers_attempted |-> "threePointersAttempted",
     three_pointers_percentage |-> "threePointersPercentage",
     free_throws_made |-> "freeThrowsMade",
     free_throws_attempted |-> "freeThrowsAttempted",
     free_throws_percentage |-> "freeThrowsPercentage",
     rebounds_offensive |-> "reboundsOffensive",
     rebounds_defensive |-> "reboundsDefensive",
     rebounds_total |-> "reboundsTotal",
     assists |-> "assists",
     steals |-> "steals",
     blocks |-> "blocks",
     turnovers |-> "turnovers",
     fouls_personal |-> "foulsPersonal",
     points |-> "points",
     plus_minus_points |-> "plusMinusPoints"]

StatTypes == {"team_statistics", "team_starters", "player_statistics"}

\* the statistical fields of each variant (team_starters has no plus/minus)
StatFieldsOf(block_type) ==
    IF block_type = "team_starters"
    THEN DOMAIN StatKeys \ {"plus_minus_points"}
    ELSE DOMAIN StatKeys

\* the nested object of the document a statistics record was built from
SourceOf(r) ==
    LET team == IF r.is_home_team THEN TheHome ELSE TheAway
    IN  CASE r.block_type = "team_statistics" -> Get(team, "statistics")
          [] r.block_type = "team_starters" -> Get(team, "starters")
          [] r.block_type = "player_statistics" ->
                 Get(Get(team, "players").list[r.player_index + 1], "statistics")

\* the records of the three statistics variants a flattened file returned
StatRecords ==
    {file.all_records[i] : i \in {j \in 1..Len(file.all_records) :
                                     file.all_records[j].block_type \in StatTypes}}

\* C22: every statistical field of every team_statistics, team_starters and
\* player_statistics record a file yields is the value of the corresponding key
\* of the object it was built from (home from the home object, away from the
\* away object; an absent key gives null), nothing is computed.
C22_StatFieldsCopied ==
    file.returned =>
        \A r \in StatRecords :
            /\ StatFieldsOf(r.block_type) \subseteq DOMAIN r
            /\ \A f \in DOMAIN r \cap DOMAIN StatKeys :
                   r[f] = Leaf(SourceOf(r), StatKeys[f])

\* a record whose rebounds_total is not offensive + defensive
Unbalanced(r) == r.rebounds_total # r.rebounds_offensive + r.rebounds_defensive

\* a flattened file with home and away records of all three variants, an
\* unbalanced record of each variant and a null statistic
C22_Witness ==
    /\ file.returned
    /\ \A t \in StatTypes : \A side \in BOOLEAN :
           \E r \in StatRecords : r.block_type = t /\ r.is_home_team = side
    /\ \A t \in StatTypes : \E r \in StatRecords : r.block_type = t /\ Unbalanced(r)
    /\ \E r \in StatRecords : r.blocks = "null"

\* the variants that have a record in the list
TypesIn(records) == {records[k].block_type : k \in 1..Len(records)}

\* C35: every record process_single_file has collected from its document,
\* of whichever of the six variants, carries the blob name as source_file
\* and the one game_date derived from that name.
C35_OneProvenancePerDocument ==
    \A k \in 1..Len(file.all_records) :
        /\ file.all_records[k].source_file = blob.name
        /\ file.all_records[k].game_date = TheDate
        /\ \A j \in 1..Len(file.all_records) :
              /\ file.all_records[j].source_file = file.all_records[k].source_file
              /\ file.all_records[j].game_date = file.all_records[k].game_date

\* a document under a partition path has been flattened into records of six
\* variants
C35_Witness ==
    /\ file.returned
    /\ Len(blob.name) = 4
    /\ Cardinality(TypesIn(file.all_records)) = 6
    /\ file.all_records[1].game_date = "2025-02-09"

-----------------------------------------------------------------------------
(* scripts/silver_layer_1.py: NBASilverProcessor.insert_to_bigquery        *)

chunk_size == 10000

\* the local state of a call of insert_to_bigquery(data) at its first line
LoaderEntry(data) == [data |-> data, i |-> 0, ops |-> <<>>, returned |-> FALSE]

\* the slice one short: data[i:i+chunk_size-1]
ChunkShort(data, i) == SubSeq(data, i + 1, Min(i + chunk_size - 1, Len(data)))

\* data[i:i+chunk_size]
Chunk(data, i) == SubSeq(data, i + 1, Min(i + chunk_size, Len(data)))

\* if not data: return
EmptyCheck(l) == IF l.data = <<>> THEN [l EXCEPT !.returned = TRUE] ELSE l

\* the loop leaving at the first chunk whose load fails
LoadStepStopOnFailure(l, ok) ==
    LET next == l.i + chunk_size
    IN  [l EXCEPT !.ops = Append(@, [chunk |-> Chunk(l.data, l.i), ok |-> ok]),
                  !.i = next,
                  !.returned = ~ok \/ ~(next < Len(l.data))]

\* one iteration of for i in range(0, total_records, chunk_size): the load
\* operation of the chunk succeeds or its exception is caught and printed;
\* after the last iteration the function returns
LoadStep(l, ok) ==
    LET next == l.i + chunk_size
    IN  [l EXCEPT !.ops = Append(@, [chunk |-> Chunk(l.data, l.i), ok |-> ok]),
                  !.i = next,
                  !.returned = ~(next < Len(l.data))]

\* the rows the load operations have appended (WRITE_APPEND), in order
RECURSIVE Loaded(_)
Loaded(ops) ==
    IF ops = <<>> THEN <<>>
    ELSE (IF Head(ops).ok THEN Head(ops).chunk ELSE <<>>) \o Loaded(Tail(ops))

\* insert_to_bigquery run to its return, every load operation ending as ok
RECURSIVE LoaderLoop(_, _)
LoaderLoop(l, ok) == IF l.returned THEN l ELSE LoaderLoop(LoadStep(l, ok), ok)

insert_to_bigquery(data, ok) == LoaderLoop(EmptyCheck(LoaderEntry(data)), ok)

-----------------------------------------------------------------------------
(* scripts/silver_layer_1.py: NBASilverProcessor                           *)

MaxBlobs == 5      \* most snapshot objects in a partition
MaxCorrupt == 1    \* most snapshot objects of a partition that cannot be read

\* a team object with every key the extractors read
WholeTeam(id, city, name, tricode, slug) ==
    [teamId |-> id, teamCity |-> city, teamName |-> name, teamTricode |-> tricode,
     teamSlug |-> slug, statistics |-> StatsA, starters |-> StatsB,
     players |-> List(<<Player1>>)]

\* a complete boxscore document, and a document with none of the expected keys
DocWhole ==
    [meta |-> Meta1,
     boxScoreTraditional |->
        [gameId |-> "0022400752", awayTeamId |-> "1610612747",
         homeTeamId |-> "1610612744",
         homeTeam |-> WholeTeam("1610612744", "Golden State", "Warriors", "GSW",
                                "warriors"),
         awayTeam |-> WholeTeam("1610612747", "Los Angeles", "Lakers", "LAL",
                                "lakers")]]
DocBare == [meta |-> None, boxScoreTraditional |-> None]

\* the documents of a partition of n objects: all bare, or complete and bare
\* in turn
PartitionData(n) ==
    {[i \in 1..n |-> DocBare],
     [i \in 1..n |-> IF i % 2 = 1 THEN DocWhole ELSE DocBare]}

\* the file name of the i-th object of the partition
FileName(i) ==
    "002240075" \o <<"1", "2", "3", "4", "5", "6", "7", "8", "9">>[i] \o ".parquet"

\* which objects of a partition of n cannot be read
CorruptSets(n) == {C \in SUBSET (1..n) : Cardinality(C) <= MaxCorrupt}

\* what list_blobs(prefix=self.date_path) can return: objects under the date
\* path, at most MaxCorrupt of them unreadable
Partitions ==
    UNION {
        {[i \in 1..n |->
            [name |-> BlobPath("2025", "02", "09", FileName(i)),
             readable |-> i \notin C,
             data |-> IF i \in C THEN DocBare ELSE d[i]]]
         : d \in PartitionData(n), C \in CorruptSets(n)}
        : n \in 0..MaxBlobs}

\* the objects a file task works with and who built them: the storage client
\* of __init__ is passed to every task, a file task has no session or proxies
FileUses == [session |-> NotBuilt, proxies |-> NotBuilt, client |-> MainProcess]

\* all_records.extend(records) over the results in task order
RECURSIVE Combine(_)
Combine(results) ==
    IF results = <<>> THEN <<>> ELSE Head(results) \o Combine(Tail(results))

NoGamesFound == [message |-> "No games found to process", total |-> 0]
Processed(records) == [message |-> "Processed", total |-> Len(records)]

InitSilver ==
    /\ FetchIdle /\ BronzeIdle /\ FlattenIdle /\ StoreIdle /\ LoadIdle
    /\ DagIdle /\ BatchIdle /\ ClockIdle
    /\ stage = "start"
    /\ task = <<>> /\ worker = <<>> /\ runs = <<>> /\ uses = <<>>
    /\ blobs \in Partitions
    /\ parallel_results = <<>>
    /\ inserted = <<>>
    /\ run_result = NotRun

\* process_yesterdays_games without its "if not blobs" return: the Parallel
\* call is entered whatever the listing gave
ListBlobsNoCheck ==
    /\ stage = "start"
    /\ stage' = "dispatch"
    /\ task' = [b \in 1..Len(blobs) |-> "pending"]
    /\ worker' = [b \in 1..Len(blobs) |-> 0]
    /\ runs' = [b \in 1..Len(blobs) |-> 0]
    /\ uses' = [b \in 1..Len(blobs) |-> NoUses]
    /\ parallel_results' = [b \in 1..Len(blobs) |-> <<>>]
    /\ UNCHANGED <<run_result, blobs, inserted, loadVars, notSilver>>

\* run() had it reported the rows its load operations appended
ReturnRunCountingLoaded ==
    /\ stage = "dispatch"
    /\ \A b \in 1..Len(task) : task[b] = "done"
    /\ LET records == Combine(parallel_results)
       IN  IF records = <<>>
           THEN /\ run_result' = NoGamesFound
                /\ UNCHANGED <<inserted, loadVars>>
           ELSE /\ inserted' = Append(inserted, records)
                /\ \E ok \in BOOLEAN :
                       /\ loader' = insert_to_bigquery(records, ok)
                       /\ table' = table \o Loaded(loader'.ops)
                /\ run_result' = Processed(Loaded(loader'.ops))
    /\ stage' = "done"
    /\ UNCHANGED <<task, worker, runs, uses, blobs, parallel_results, notSilver>>

\* run() into process_yesterdays_games up to the Parallel call: with no blobs
\* it returns [] and run() returns its message, else one delayed task per blob
ListBlobs ==
    /\ stage = "start"
    /\ IF blobs = <<>>
       THEN /\ stage' = "done"
            /\ run_result' = NoGamesFound
            /\ UNCHANGED <<task, worker, runs, uses, parallel_results>>
       ELSE /\ stage' = "dispatch"
            /\ task' = [b \in 1..Len(blobs) |-> "pending"]
            /\ worker' = [b \in 1..Len(blobs) |-> 0]
            /\ runs' = [b \in 1..Len(blobs) |-> 0]
            /\ uses' = [b \in 1..Len(blobs) |-> NoUses]
            /\ parallel_results' = [b \in 1..Len(blobs) |-> <<>>]
            /\ UNCHANGED run_result
    /\ UNCHANGED <<blobs, inserted, loadVars, notSilver>>

\* Parallel(n_jobs=4): an idle worker takes the next task
StartFile(b, w) ==
    /\ stage = "dispatch"
    /\ NextPending(b)
    /\ FreeWorker(w)
    /\ task' = [task EXCEPT ![b] = "running"]
    /\ worker' = [worker EXCEPT ![b] = w]
    /\ runs' = [runs EXCEPT ![b] = @ + 1]
    /\ uses' = [uses EXCEPT ![b] = FileUses]
    /\ UNCHANGED <<stage, silverVars, loadVars, notSilver>>

\* the task runs process_single_file to its end: it returns its records or
\* the exception leaves the task
ProcessSingleFile(b) ==
    /\ stage = "dispatch"
    /\ task[b] = "running"
    /\ LET f == process_single_file(blobs[b])
       IN  IF f.raised
           THEN /\ task' = [task EXCEPT ![b] = "failed"]
                /\ UNCHANGED parallel_results
           ELSE /\ task' = [task EXCEPT ![b] = "done"]
                /\ parallel_results' = [parallel_results EXCEPT ![b] = f.all_records]
    /\ UNCHANGED <<stage, worker, runs, uses, blobs, inserted, run_result, loadVars,
                   notSilver>>

\* Parallel re-raises the exception of a task: the tasks still running are
\* stopped, the pending ones never start, and nothing between the Parallel
\* call and the caller of run_silver_layer catches it
AbortParallel ==
    /\ stage = "dispatch"
    /\ \E b \in 1..Len(task) : task[b] = "failed"
    /\ stage' = "raised"
    /\ task' = [b \in 1..Len(task) |-> IF task[b] = "running" THEN "killed" ELSE task[b]]
    /\ UNCHANGED <<worker, runs, uses, silverVars, loadVars, notSilver>>

\* run() without its "if not records" return: the records go to
\* insert_to_bigquery and the summary is returned whatever the list holds
ReturnRunNoCheck ==
    /\ stage = "dispatch"
    /\ \A b \in 1..Len(task) : task[b] = "done"
    /\ LET records == Combine(parallel_results)
       IN  /\ inserted' = Append(inserted, records)
           /\ \E ok \in BOOLEAN :
                  /\ loader' = insert_to_bigquery(records, ok)
                  /\ table' = table \o Loaded(loader'.ops)
           /\ run_result' = Processed(records)
    /\ stage' = "done"
    /\ UNCHANGED <<task, worker, runs, uses, blobs, parallel_results, notSilver>>

\* Parallel returns; process_yesterdays_games combines the results and run()
\* hands them to insert_to_bigquery, which runs to its return, unless the
\* list is empty
ReturnRun ==
    /\ stage = "dispatch"
    /\ \A b \in 1..Len(task) : task[b] = "done"
    /\ LET records == Combine(parallel_results)
       IN  IF records = <<>>
           THEN /\ run_result' = NoGamesFound
                /\ UNCHANGED <<inserted, loadVars>>
           ELSE /\ inserted' = Append(inserted, records)
                /\ \E ok \in BOOLEAN :
                       /\ loader' = insert_to_bigquery(records, ok)
                       /\ table' = table \o Loaded(loader'.ops)
                /\ run_result' = Processed(records)
    /\ stage' = "done"
    /\ UNCHANGED <<task, worker, runs, uses, blobs, parallel_results, notSilver>>

NextSilver ==
    \/ ListBlobs
    \/ \E b \in 1..Len(task), w \in Workers : StartFile(b, w)
    \/ \E b \in 1..Len(task) : ProcessSingleFile(b)
    \/ AbortParallel
    \/ ReturnRun

SpecSilver == InitSilver /\ [][NextSilver]_vars

-----------------------------------------------------------------------------
(* Properties of the flattening stage (SpecSilver).                        *)

\* the records of the readable documents of the partition, in list order
ReadableRecords ==
    Combine([b \in 1..Len(blobs) |->
                IF blobs[b].readable
                THEN process_single_file(blobs[b]).all_records
                ELSE <<>>])

\* C5 as stated: a document whose snapshot cannot be read contributes zero
\* records, the run still ends normally, and the records of every other
\* document of the partition are passed to the loader.
C5_UnreadableDocumentSkipped ==
    stage \in {"done", "raised"} =>
        /\ stage = "done"
        /\ ReadableRecords # <<>> => inserted = <<ReadableRecords>>

\* C9 as stated: at most 4 tasks (batches, documents) run at any moment, a
\* started task has exactly one worker and was started once, and when the run
\* has ended every task was executed exactly once.
C9_AtMostFourEachExactlyOnce ==
    /\ Cardinality({b \in 1..Len(task) : task[b] = "running"}) <= 4
    /\ \A b \in 1..Len(task) :
          /\ runs[b] <= 1
          /\ task[b] # "pending" => worker[b] \in Workers /\ runs[b] = 1
          /\ \A c \in 1..Len(task) :
                (c # b /\ task[b] = "running" /\ task[c] = "running")
                    => worker[b] # worker[c]
    /\ stage \in {"done", "raised"} =>
          \A b \in 1..Len(task) : runs[b] = 1 /\ task[b] = "done"

\* C16: whenever the record set of a silver run is empty (nothing listed, or
\* every document yielded zero records), run() returns "No games found to
\* process", insert_to_bigquery is not called and no load operation reaches
\* the table; a load operation is only ever issued for a non-empty record set.
C16_EmptyRecordSetLoadsNothing ==
    /\ (stage = "done" /\ ReadableRecords = <<>>) =>
          /\ run_result = NoGamesFound
          /\ inserted = <<>>
          /\ loader = NotCalled
          /\ table = <<>>
    /\ loader.ops # <<>> => (ReadableRecords # <<>> /\ loader.data = ReadableRecords)

\* five documents were flattened and none of them gave a record
C16_Witness ==
    /\ stage = "done"
    /\ Len(blobs) = 5
    /\ \A b \in 1..Len(blobs) : task[b] = "done" /\ parallel_results[b] = <<>>
    /\ run_result = NoGamesFound
    /\ loader = NotCalled

\* C17: when the listing under the partition prefix is empty, the stage ends
\* normally with "No games found to process", never enters the parallel
\* dispatch, starts no worker task, runs no extractor and issues no load.
C17_EmptyListingStopsEarly ==
    blobs = <<>> =>
        /\ stage \in {"start", "done"}
        /\ task = <<>> /\ runs = <<>> /\ worker = <<>>
        /\ parallel_results = <<>>
        /\ inserted = <<>> /\ loader = NotCalled /\ table = <<>>
        /\ stage = "done" => run_result = NoGamesFound

C17_Witness ==
    /\ blobs = <<>>
    /\ stage = "done"
    /\ run_result = NoGamesFound
    /\ task = <<>> /\ loader = NotCalled

\* C29: the count in the summary run() returns is the number of records
\* extracted, whatever the load operations did: with failed chunks the
\* summary still says "Processed N" with N the extracted records, and the
\* rows appended by the run are at most N.
C29_SummaryCountsExtracted ==
    (stage = "done" /\ run_result # NoGamesFound) =>
        /\ run_result = [message |-> "Processed", total |-> Len(ReadableRecords)]
        /\ run_result.total = Len(loader.data)
        /\ Len(table) = Len(Loaded(loader.ops))
        /\ Len(table) <= run_result.total

\* a run whose load failed: the summary counts records, the table got none
C29_Witness ==
    /\ stage = "done"
    /\ run_result.message = "Processed"
    /\ run_result.total > 0
    /\ \E k \in 1..Len(loader.ops) : ~loader.ops[k].ok
    /\ Len(table) < run_result.total

-----------------------------------------------------------------------------
(* Flatten passes over the documents of a partition with the extractors    *)
(* called in a given order and the documents ended in any order            *)
(* (SpecOrder).                                                            *)

MaxDocs == 2       \* most documents of the partition

\* the six extractors in every order
ExtractorOrders ==
    {o \in [1..Len(ExtractorOrder) -> ExtractorNames] :
        \A i, j \in 1..Len(ExtractorOrder) : i # j => o[i] # o[j]}

\* the local state of a pass that calls the extractors in the given order
PassStart(order) ==
    [at |-> 0, all_records |-> <<>>, raised |-> FALSE, returned |-> FALSE,
     order |-> order]

\* the document of task b as the pass is given it
TaskBlob(b) ==
    [name |-> blobs[b].name, readable |-> blobs[b].readable, data |-> blobs[b].data,
     task |-> b]

\* the readable partitions of up to MaxDocs documents
OrderPartitions ==
    {q \in Partitions :
        /\ Len(q) \in 1..MaxDocs
        /\ \A b \in 1..Len(q) : q[b].readable}

InitOrder ==
    /\ FetchIdle /\ BronzeIdle /\ StoreIdle /\ LoadIdle /\ DagIdle /\ BatchIdle
    /\ ClockIdle
    /\ stage = "dispatch"
    /\ worker = <<>> /\ runs = <<>> /\ uses = <<>>
    /\ blobs \in OrderPartitions
    /\ \E first \in 1..Len(blobs) :
          /\ task = [b \in 1..Len(blobs) |-> IF b = first THEN "running" ELSE "pending"]
          /\ blob = TaskBlob(first)
    /\ \E order \in ExtractorOrders : file = PassStart(order)
    /\ parallel_results = [b \in 1..Len(blobs) |-> <<>>]
    /\ inserted = <<>>
    /\ run_result = NotRun

\* the pass of a document has returned: its records are the result of its
\* task, and a document not yet flattened, whichever, is taken next
NextDoc(c) ==
    /\ stage = "dispatch"
    /\ file.returned
    /\ task[c] = "pending"
    /\ parallel_results' = [parallel_results EXCEPT ![blob.task] = file.all_records]
    /\ task' = [task EXCEPT ![blob.task] = "done", ![c] = "running"]
    /\ blob' = TaskBlob(c)
    /\ file' = PassStart(file.order)
    /\ UNCHANGED <<stage, worker, runs, uses, blobs, inserted, run_result, loadVars,
                   fetchVars, bronzeVars, storeVars, dagVars, batchVars, clockVars>>

\* the last pass has returned: the results are combined in task order
CombineAll ==
    /\ stage = "dispatch"
    /\ file.returned
    /\ \A c \in 1..Len(task) : task[c] # "pending"
    /\ parallel_results' = [parallel_results EXCEPT ![blob.task] = file.all_records]
    /\ task' = [task EXCEPT ![blob.task] = "done"]
    /\ inserted' = <<Combine(parallel_results')>>
    /\ stage' = "done"
    /\ UNCHANGED <<worker, runs, uses, blobs, run_result, blob, file, loadVars,
                   fetchVars, bronzeVars, storeVars, dagVars, batchVars, clockVars>>

NextOrder ==
    \/ Download
    \/ Extend
    \/ \E c \in 1..Len(task) : NextDoc(c)
    \/ CombineAll

SpecOrder == InitOrder /\ [][NextOrder]_vars

\* the records of a list with how often each occurs
BagOfSeq(q) ==
    [r \in {q[k] : k \in 1..Len(q)} |-> Cardinality({k \in 1..Len(q) : q[k] = r})]

\* C36: a flatten pass that calls the six extractors in any order yields for
\* a document the same multiset of records as a further pass in the order of
\* the source, and when the partition has been combined, in whatever order
\* its documents were ended, the combined records are as a multiset those of
\* the passes in the order of the source over its documents.
C36_FlattenOrderIndependent ==
    /\ ~file.raised
    /\ file.returned =>
          BagOfSeq(file.all_records) =
              BagOfSeq(process_single_file(blobs[blob.task]).all_records)
    /\ (stage = "done" /\ inserted # <<>>) =>
          BagOfSeq(inserted[1]) =
              BagOfSeq(Combine([b \in 1..Len(blobs) |->
                                   process_single_file(blobs[b]).all_records]))

\* a partition of two documents has been combined after its second document
\* was flattened first, the team extractors called before the meta extractor
C36_Witness ==
    /\ stage = "done" /\ inserted # <<>>
    /\ Len(blobs) = 2
    /\ blob.task = 1
    /\ file.order[6] = "meta" /\ file.order[1] = "player_statistics"
    /\ Len(inserted[1]) > 3
    /\ file.all_records # process_single_file(blobs[1]).all_records

-----------------------------------------------------------------------------
(* process_single_file over blob names of every shape (SpecPath).          *)

Absent == "absent"

\* what a path can hold for year=, month= and day=: no such segment, an
\* empty value, or digits (one digit too for month and day)
YearValues == {Absent, "", "2025"}
MonthValues == {Absent, "", "2", "02", "12"}
DayValues == {Absent, "", "9", "09", "31"}

\* the parts of a blob name with the segments that are not absent
PathOf(year, month, day) ==
    LET Present(seg) == seg.value # Absent
    IN  SelectSeq(<<Segment("year", year), Segment("month", month),
                    Segment("day", day)>>, Present)
            \o <<Segment("", "0022400752.parquet")>>

PathNames == {PathOf(y, m, d) : y \in YearValues, m \in MonthValues, d \in DayValues}

InitPath ==
    /\ FetchIdle /\ PoolIdle /\ BronzeIdle /\ SilverIdle /\ StoreIdle /\ LoadIdle
    /\ DagIdle /\ BatchIdle /\ ClockIdle
    /\ blob \in [name : PathNames, readable : {TRUE}, data : {DocWhole, DocBare}]
    /\ file = FileStart

SpecPath == InitPath /\ [][NextFlatten]_vars

\* a month or day value as two digits
TwoWide(s) ==
    CASE s = "2" -> "02"
      [] s = "9" -> "09"
      [] OTHER -> s

\* the value of the segment of that name in the blob name, Absent without one
SegmentOf(name) ==
    IF \E i \in 1..Len(blob.name) : blob.name[i].name = name
    THEN (CHOOSE seg \in {blob.name[i] : i \in 1..Len(blob.name)} :
              seg.name = name).value
    ELSE Absent

\* the date the path stands for
DateOfPath ==
    IF \A name \in {"year", "month", "day"} : SegmentOf(name) \notin {Absent, ""}
    THEN SegmentOf("year") \o "-" \o TwoWide(SegmentOf("month")) \o "-"
             \o TwoWide(SegmentOf("day"))
    ELSE PyNone

\* C37: game_date comes from the blob path alone: year-month-day from the
\* year=, month= and day= segments, month and day padded to two digits, when
\* all three are there and not empty, None otherwise; with None the call
\* still runs the extractors and returns, every record carrying None.
C37_GameDateFromPath ==
    /\ ~file.raised
    /\ TheDate = DateOfPath
    /\ TheDate # PyNone => Len(TheDate) = 10
    /\ \A k \in 1..Len(file.all_records) : file.all_records[k].game_date = DateOfPath
    /\ (file.returned /\ blob.data = DocWhole) =>
          Cardinality(TypesIn(file.all_records)) = 6

\* a complete document under a path whose day= segment is empty has been
\* flattened into records of six variants that carry None
C37_Witness ==
    /\ file.returned
    /\ blob.name = PathOf("2025", "2", "")
    /\ TheDate = PyNone
    /\ Cardinality(TypesIn(file.all_records)) = 6
    /\ \A k \in 1..Len(file.all_records) : file.all_records[k].game_date = PyNone

-----------------------------------------------------------------------------
(* The snapshot buckets over re-runs of the two fetch stages of a partition *)
(* (scripts/bronze_layer_1.py, plugins/bronze_layer_2.py).                  *)

MaxListed == 3     \* longest game id list the scoreboard of the partition gives
MaxReruns == 2     \* most runs of one fetch stage for the partition

\* the game ids the scoreboard of the partition can list
ListedIds == {1, 2}
IdText(game_id) == <<"0022400751", "0022400752">>[game_id]

\* self.date_path / the year, month, day of bronze_layer_1.py
date_path == "year=2025/month=02/day=09"

\* the object name without the game id
ObjectNameFlat(path, game_id) == path \o ".parquet"

\* f"{self.date_path}/{game_id}.parquet"
ObjectName(path, game_id) == path \o "/" \o IdText(game_id) \o ".parquet"

\* f"year={year}/month={month}/day={day}/scoreboard.parquet"
ScoreboardObjectName(path) == path \o "/scoreboard.parquet"

\* bucket.blob(name).upload_from_file(...): the object of that name in that
\* bucket is created or replaced
Put(objs, bucket_name, name, body, run) ==
    {o \in objs : ~(o.bucket = bucket_name /\ o.name = name)}
        \cup {[bucket |-> bucket_name, name |-> name, body |-> body, run |-> run]}

\* every successful upload of one call, in order
RECURSIVE PutAll(_, _, _, _, _)
PutAll(objs, bucket_name, name, bodies, run) ==
    IF bodies = <<>> THEN objs
    ELSE PutAll(Put(objs, bucket_name, name, Head(bodies), run), bucket_name, name,
                Tail(bodies), run)

\* get_nba_scoreboard run to its end on the given attempts and upload outcome
RECURSIVE ScoreboardLoop(_, _, _)
ScoreboardLoop(st, envs, uploadOk) ==
    IF st.pc = "loop"
    THEN ScoreboardLoop(ScoreboardAttempt(st, Head(envs)), Tail(envs), uploadOk)
    ELSE IF st.pc = "after" THEN ScoreboardLoop(ScoreboardAfterLoop(st), envs, uploadOk)
    ELSE IF st.pc = "upload" THEN ScoreboardLoop(ScoreboardUpload(st, uploadOk), envs, uploadOk)
    ELSE st

get_nba_scoreboard(envs, uploadOk) == ScoreboardLoop(FetchStart, envs, uploadOk)

\* what the scoreboard endpoint and its bucket do on every run of the partition
ScoreboardPlans ==
    {[envs |-> <<"ok", "ok", "ok">>, upload |-> TRUE],
     [envs |-> <<"ok", "ok", "ok">>, upload |-> FALSE],
     [envs |-> <<"exception", "ok", "ok">>, upload |-> TRUE],
     [envs |-> <<"exception", "exception", "exception">>, upload |-> TRUE],
     [envs |-> <<"http_error_json", "ok", "ok">>, upload |-> TRUE]}

\* the lists of game ids a scoreboard can give (a row may repeat a game)
IdLists == UNION {[1..n -> ListedIds] : n \in 0..MaxListed}

\* the scoreboard snapshot as get_game_ids finds it
ScoreboardObject(objs) ==
    {o \in objs : o.bucket = "scoreboard" /\ o.name = ScoreboardObjectName(date_path)}

\* get_game_ids raises: no snapshot to download, or a body without resultSets
GetGameIdsRaises(objs) ==
    \A o \in ScoreboardObject(objs) : o.body # "payload"

\* the uploads of process_game_with_retry for every game id of the list; the
\* batches run in parallel, their uploads go to one object per game id
RECURSIVE UploadGames(_, _, _, _)
UploadGames(objs, ids, u, run) ==
    IF ids = <<>> THEN objs
    ELSE LET st == RetryLoop(FetchStart, EnvsOf(u, Head(ids)))
         IN  UploadGames(PutAll(objs, "boxscore", ObjectName(date_path, Head(ids)),
                                st.writes, run),
                         Tail(ids), u, run)

\* some attempt or upload of the run for these game ids did not succeed
SomeGameFailed(ids, u) ==
    \E i \in 1..Len(ids) : RetryLoop(FetchStart, EnvsOf(u, ids[i])).tries # <<"ok">>

NoRuns == [scoreboard |-> 0, boxscore |-> 0, failed |-> FALSE]

InitStore ==
    /\ FetchIdle /\ PoolIdle /\ BronzeIdle /\ FlattenIdle /\ SilverIdle /\ LoadIdle
    /\ DagIdle /\ BatchIdle /\ ClockIdle
    /\ objects = {}
    /\ plan \in [ids : IdLists, upstream : UpstreamsFor(Cardinality(ListedIds)),
                 scoreboard : ScoreboardPlans]
    /\ reruns = NoRuns

\* one run of get_nba_scoreboard for the partition
ScoreboardRun ==
    /\ reruns.scoreboard < MaxReruns
    /\ LET st == get_nba_scoreboard(plan.scoreboard.envs, plan.scoreboard.upload)
           run == reruns.scoreboard + 1
       IN  /\ objects' = PutAll(objects, "scoreboard", ScoreboardObjectName(date_path),
                                st.writes, run)
           /\ reruns' = [reruns EXCEPT
                            !.scoreboard = run,
                            !.failed = @ \/ st.raised \/ st.tries # <<"ok">>]
    /\ UNCHANGED <<plan, notStore>>

\* one run of get_nba_boxscores for the partition
BoxscoreRun ==
    /\ reruns.boxscore < MaxReruns
    /\ LET run == reruns.boxscore + 1
       IN  IF GetGameIdsRaises(objects)
           THEN /\ reruns' = [reruns EXCEPT !.boxscore = run, !.failed = TRUE]
                /\ UNCHANGED objects
           ELSE /\ objects' = UploadGames(objects, plan.ids, plan.upstream, run)
                /\ reruns' = [reruns EXCEPT
                                 !.boxscore = run,
                                 !.failed = @ \/ SomeGameFailed(plan.ids, plan.upstream)]
    /\ UNCHANGED <<plan, notStore>>

NextStore ==
    \/ ScoreboardRun
    \/ BoxscoreRun

SpecStore == InitStore /\ [][NextStore]_vars

-----------------------------------------------------------------------------
(* Properties of the snapshot buckets (SpecStore).                         *)

\* the objects of one bucket
InBucket(bucket_name) == {o \in objects : o.bucket = bucket_name}

\* the distinct game ids requested in the partition
RequestedIds == {plan.ids[i] : i \in 1..Len(plan.ids)}

\* C11: after any number of runs of the fetch stages for one partition in
\* which nothing failed, each bucket holds exactly one object per distinct
\* requested resource, at year=../month=../day=../<id>.parquet, and that
\* object is the one the latest run wrote (a re-run replaces, never adds).
C11_OneObjectPerResource ==
    ~reruns.failed =>
        /\ reruns.boxscore >= 1 =>
              /\ Cardinality(InBucket("boxscore")) = Cardinality(RequestedIds)
              /\ \A id \in RequestedIds :
                    \E o \in InBucket("boxscore") :
                        /\ o.name = "year=2025/month=02/day=09/" \o IdText(id) \o ".parquet"
                        /\ o.run = reruns.boxscore
        /\ reruns.scoreboard >= 1 =>
              InBucket("scoreboard") =
                  {[bucket |-> "scoreboard",
                    name |-> "year=2025/month=02/day=09/scoreboard.parquet",
                    body |-> "payload", run |-> reruns.scoreboard]}

\* both stages ran twice without a failure over a list that repeats a game id
C11_Witness ==
    /\ ~reruns.failed
    /\ reruns.scoreboard = 2 /\ reruns.boxscore = 2
    /\ Len(plan.ids) = 3 /\ Cardinality(RequestedIds) = 2
    /\ Cardinality(InBucket("boxscore")) = 2
    /\ \A o \in objects : o.run = 2

------------------------------------------------------------------------------
(* SpecRerun: the fetch stages and the silver stage run again and again     *)
(* over one partition (snapshot buckets and warehouse table).              *)

\* no silver run yet
NoSilverRuns == [silver |-> 0, extracted |-> <<>>, lost |-> FALSE]

\* list_blobs(prefix=self.date_path) on the boxscore bucket: the game ids whose
\* snapshot the partition holds, in name order
Listing(objs) ==
    LET Held(id) == \E o \in objs : o.bucket = "boxscore"
                                    /\ o.name = ObjectName(date_path, id)
    IN  SelectSeq([i \in 1..Cardinality(ListedIds) |-> i], Held)

\* the document of a stored boxscore response: metadata, the ids of the game,
\* and no team objects
DocStored(id) ==
    [meta |-> Meta1,
     boxScoreTraditional |->
        [gameId |-> IdText(id), awayTeamId |-> "1610612747",
         homeTeamId |-> "1610612744"]]

\* the snapshot process_single_file downloads for a listed game id
SnapshotOf(id) ==
    [name |-> BlobPath("2025", "02", "09", IdText(id) \o ".parquet"),
     readable |-> TRUE, data |-> DocStored(id)]

\* process_yesterdays_games: the records of every listed snapshot, in list order
process_yesterdays_games(objs) ==
    LET listing == Listing(objs)
    IN  Combine([b \in 1..Len(listing) |->
                    process_single_file(SnapshotOf(listing[b])).all_records])

\* write_disposition="WRITE_TRUNCATE"
WriteTruncate(rows, chunks) == chunks

\* write_disposition="WRITE_APPEND": the load jobs add to the rows of the table
WriteAppend(rows, chunks) == rows \o chunks

\* one run of run_silver_layer for the partition
SilverRun ==
    /\ reruns.silver.silver < MaxReruns
    /\ LET records == process_yesterdays_games(objects)
       IN  \E ok \in BOOLEAN :
               /\ loader' = IF records = <<>> THEN loader
                             ELSE insert_to_bigquery(records, ok)
               /\ table' = IF records = <<>> THEN table
                            ELSE WriteAppend(table, Loaded(loader'.ops))
               /\ reruns' = [reruns EXCEPT
                                !.silver = [silver |-> @.silver + 1,
                                            extracted |-> Append(@.extracted, records),
                                            lost |-> @.lost \/ (records # <<>> /\ ~ok)]]
    /\ UNCHANGED <<objects, plan, fetchVars, poolVars, bronzeVars, flattenVars,
                   silverVars, dagVars, batchVars, clockVars>>

\* the game id lists of the re-run partition: one game listed again and
\* again, or two games in turn
RerunIdLists ==
    {[i \in 1..MaxListed |-> 1], [i \in 1..MaxListed |-> 2 - (i % 2)]}

InitRerun ==
    /\ FetchIdle /\ PoolIdle /\ BronzeIdle /\ FlattenIdle /\ SilverIdle /\ LoadIdle
    /\ DagIdle /\ BatchIdle /\ ClockIdle
    /\ objects = {}
    /\ plan \in [ids : RerunIdLists,
                 upstream : UpstreamsFor(Cardinality(ListedIds)),
                 scoreboard : ScoreboardPlans]
    /\ reruns = [scoreboard |-> 0, boxscore |-> 0, failed |-> FALSE,
                 silver |-> NoSilverRuns]

NextRerun ==
    \/ ScoreboardRun
    \/ BoxscoreRun
    \/ SilverRun

SpecRerun == InitRerun /\ [][NextRerun]_vars

(* Properties of the re-runs (SpecRerun).                                  *)

\* the objects without the run that wrote them
Strip(objs) == {[bucket |-> o.bucket, name |-> o.name, body |-> o.body] : o \in objs}

\* what one run of each fetch stage leaves in its empty bucket
OneScoreboardRun ==
    Strip(PutAll({}, "scoreboard", ScoreboardObjectName(date_path),
                 get_nba_scoreboard(plan.scoreboard.envs, plan.scoreboard.upload).writes,
                 1))
OneBoxscoreRun == Strip(UploadGames({}, plan.ids, plan.upstream, 1))

\* k copies of the records, one after the other
RECURSIVE Repeat(_, _)
Repeat(records, k) == IF k = 0 THEN <<>> ELSE records \o Repeat(records, k - 1)

\* every silver run so far found the partition as it is now
PartitionUnchanged ==
    \A i \in 1..Len(reruns.silver.extracted) :
        reruns.silver.extracted[i] = process_yesterdays_games(objects)

\* C25: after k silver runs over the unchanged partition whose loads all
\* succeeded the table holds k copies of the extracted records, in run order
\* (append, nothing replaced or deduplicated), whereas the buckets after any
\* number of runs of a fetch stage hold what one run leaves.
C25_LoadAppendsFetchOverwrites ==
    /\ (PartitionUnchanged /\ ~reruns.silver.lost) =>
           table = Repeat(process_yesterdays_games(objects), reruns.silver.silver)
    /\ reruns.scoreboard >= 1 => Strip(InBucket("scoreboard")) = OneScoreboardRun
    /\ Strip(InBucket("boxscore")) \in {{}, OneBoxscoreRun}
    /\ (reruns.boxscore >= 1 /\ ~reruns.failed) =>
           Strip(InBucket("boxscore")) = OneBoxscoreRun

\* both fetch stages ran twice, then the silver stage ran twice and loaded
\* the records of two snapshots twice
C25_Witness ==
    /\ reruns.scoreboard = 2 /\ reruns.boxscore = 2
    /\ reruns.silver.silver = 2 /\ ~reruns.silver.lost
    /\ PartitionUnchanged
    /\ Len(Listing(objects)) = 2
    /\ Len(table) = 2 * Len(process_yesterdays_games(objects))
    /\ Len(table) > 0
    /\ \A o \in objects : o.run = 2

-----------------------------------------------------------------------------
(* SpecLoad: one call of insert_to_bigquery, chunk by chunk.               *)

MaxRows == 30000   \* most records handed to one call

\* the record counts tried: around the chunk boundaries, 25,000, the most
LoadSizes ==
    {0, 1, chunk_size - 1, chunk_size, chunk_size + 1, 2 * chunk_size,
     2 * chunk_size + 1, 25000, MaxRows}

\* n records, told apart by their position in the list
Rows(n) == [k \in 1..n |-> k]

InitLoad ==
    /\ FetchIdle /\ PoolIdle /\ BronzeIdle /\ FlattenIdle /\ SilverIdle /\ StoreIdle
    /\ DagIdle /\ BatchIdle /\ ClockIdle
    /\ \E n \in LoadSizes : loader = LoaderEntry(Rows(n))
    /\ table \in {<<>>, <<0>>}

\* the call up to its loop
InsertEnter ==
    /\ ~loader.returned /\ loader.i = 0 /\ loader.ops = <<>> /\ loader.data = <<>>
    /\ loader' = EmptyCheck(loader)
    /\ UNCHANGED <<table, notLoad>>

\* one iteration of the loop
LoadChunk ==
    /\ ~loader.returned /\ loader.data # <<>>
    /\ \E ok \in BOOLEAN :
          /\ loader' = LoadStep(loader, ok)
          /\ table' = IF ok THEN table \o Chunk(loader.data, loader.i) ELSE table
    /\ UNCHANGED notLoad

NextLoad ==
    \/ InsertEnter
    \/ LoadChunk

SpecLoad == InitLoad /\ [][NextLoad]_vars

-----------------------------------------------------------------------------
(* Properties of insert_to_bigquery (SpecLoad).                            *)

\* the sizes of the chunks of the load operations issued so far
ChunkSizes == [k \in 1..Len(loader.ops) |-> Len(loader.ops[k].chunk)]

\* C14: insert_to_bigquery on n > 0 records issues exactly ceil(n/10000) load
\* operations; the k-th one carries records (k-1)*10000+1 .. min(k*10000, n)
\* of the input in input order, so every chunk has between 1 and 10,000
\* records and every record is in exactly one chunk (25,000 records:
\* 10,000 / 10,000 / 5,000).
C14_ChunksOfTenThousand ==
    LET n == Len(loader.data)
        ops == loader.ops
    IN  /\ Len(ops) <= (n + 9999) \div 10000
        /\ \A k \in 1..Len(ops) :
              /\ ops[k].chunk = SubSeq(loader.data, (k - 1) * 10000 + 1, Min(k * 10000, n))
              /\ Len(ops[k].chunk) \in 1..10000
        /\ (loader.returned /\ n > 0) =>
              /\ Len(ops) = (n + 9999) \div 10000
              /\ Concat([k \in 1..Len(ops) |-> ops[k].chunk]) = loader.data
              /\ n = 25000 => ChunkSizes = <<10000, 10000, 5000>>

C14_Witness ==
    /\ loader.returned
    /\ Len(loader.data) = 25000
    /\ ChunkSizes = <<10000, 10000, 5000>>
    /\ Len(table) = 25000

\* C15: when the load operation of a chunk fails, that chunk is not tried
\* again, every later chunk is still attempted before insert_to_bigquery
\* returns, and the table ends with the rows of exactly the chunks whose load
\* succeeded, in order (nothing loaded earlier is taken back).
C15_FailedChunkSkippedOthersLoaded ==
    LET n == Len(loader.data)
        ops == loader.ops
        rows == Loaded(ops)
    IN  /\ \A k \in 1..Len(ops) :
              ~ops[k].ok =>
                  /\ Cardinality({j \in 1..Len(ops) : ops[j].chunk = ops[k].chunk}) = 1
                  /\ loader.returned => Len(ops) = (n + 9999) \div 10000
                  /\ ~loader.returned => loader.i < n
        /\ Len(table) >= Len(rows)
        /\ SubSeq(table, Len(table) - Len(rows) + 1, Len(table)) = rows

\* 25,000 records, the second load fails, the first and third are in the table
C15_Witness ==
    /\ loader.returned
    /\ Len(loader.data) = 25000
    /\ [k \in 1..Len(loader.ops) |-> loader.ops[k].ok] = <<TRUE, FALSE, TRUE>>
    /\ table = SubSeq(loader.data, 1, 10000) \o SubSeq(loader.data, 20001, 25000)

------------------------------------------------------------------------------
(* dag/dag.py: one run of nba_analytics_wap_pipeline_production for a      *)
(* partition, from the scoreboard task to the write task, together with   *)
(* the stage functions its PythonOperator tasks post to.                  *)

MaxSlate == 5      \* most games the scoreboard lists for the day

retries == 3

ScoreboardTask == "bronze_layer_1_scoreboard"
BoxscoreTask == "bronze_layer_2_boxscores"
SeasonsTask == "update_nba_seasons"
SilverTask == "silver_layer_1_flatten"
WriteTask == "wap_part_1_write_and_clean"

Tasks == {ScoreboardTask, BoxscoreTask, SeasonsTask, SilverTask, WriteTask}

\* the seven BigQueryCheckOperator tasks over the staging table
Audits ==
    {"audit_shooting_logic", "audit_minutes_range", "audit_percentages",
     "audit_rebound_logic", "audit_negative_stats", "audit_required_fields",
     "audit_player_uniqueness"}

PublishTask == "wap_part_3_publish_to_production"
ReferenceTask == "update_player_reference_table"

\* the six tasks that rebuild the analytics tables
Analytics ==
    {"update_combined_player_analysis", "update_fantasy_points_leaders",
     "update_player_profile_data", "update_player_trend_analysis",
     "update_player_zscore_analysis", "update_top15_fantasy_boxplot"}

\* the tasks whose callable posts to a stage function and waits for the response
FnTasks == {ScoreboardTask, BoxscoreTask, SilverTask}

\* the dependencies with "bronze_layer_2 >> update_nba_seasons" left out
UpstreamNoSeasonsEdge(t) ==
    CASE t = ScoreboardTask -> {}
      [] t = BoxscoreTask -> {ScoreboardTask}
      [] t = SeasonsTask -> {}
      [] t = SilverTask -> {SeasonsTask}
      [] t = WriteTask -> {SilverTask}

\* bronze_layer_1 >> bronze_layer_2 >> update_nba_seasons >> silver_layer_1
\* >> wap_part_1_write >> [the seven audits] >> wap_part_3_publish
\* >> update_player_reference_table >> [the six analytics tasks]
Upstream(t) ==
    CASE t = ScoreboardTask -> {}
      [] t = BoxscoreTask -> {ScoreboardTask}
      [] t = SeasonsTask -> {BoxscoreTask}
      [] t = SilverTask -> {SeasonsTask}
      [] t = WriteTask -> {SilverTask}
      [] t \in Audits -> {WriteTask}
      [] t = PublishTask -> Audits
      [] t = ReferenceTask -> {PublishTask}
      [] t \in Analytics -> {ReferenceTask}

\* a stage function: not invoked, at its first line, inside Parallel, ended
NotInvoked == [at |-> "idle", pool |-> <<>>, status |-> 0]
Invoked == [at |-> "entered", pool |-> <<>>, status |-> 0]
Respond(f, status) == [f EXCEPT !.at = "returned", !.status = status]
Raise(f) == [f EXCEPT !.at = "raised", !.status = 500]

InitDag ==
    /\ FetchIdle /\ PoolIdle /\ BronzeIdle /\ FlattenIdle /\ SilverIdle /\ StoreIdle
    /\ LoadIdle /\ BatchIdle /\ ClockIdle
    /\ ti = [t \in Tasks |-> "none"]
    /\ try_number = [t \in Tasks |-> 0]
    /\ fn = [t \in FnTasks |-> NotInvoked]
    /\ slate \in 0..MaxSlate
    /\ landed \in [scoreboard : {"none", "payload"}, games : {{}}]

\* the tasks to start under the trigger rule one_success
ReadyOneSuccess ==
    {t \in DOMAIN ti :
        /\ ti[t] \in {"none", "up_for_retry"}
        /\ Upstream(t) = {} \/ \E u \in Upstream(t) : ti[u] = "success"}

\* the tasks to start: not started yet or waiting for a retry, with every
\* upstream task succeeded (trigger rule all_success, the default)
Ready ==
    {t \in DOMAIN ti :
        /\ ti[t] \in {"none", "up_for_retry"}
        /\ \A u \in Upstream(t) : ti[u] = "success"}

\* how the BigQuery job of the running try of a task can end: any way, unless
\* the run is looked at under a plan, which names the tasks whose jobs fail
\* and how many of their first tries do
JobResults(t) ==
    IF plan = <<>> THEN BOOLEAN
    ELSE {~(t \in plan.failing /\ try_number[t] <= plan.fails)}

\* a pass of the scheduler over the run starts every task instance that is
\* ready; a PythonOperator task posts to its function
TaskStart ==
    /\ Ready # {}
    /\ ti' = [t \in DOMAIN ti |-> IF t \in Ready THEN "running" ELSE ti[t]]
    /\ try_number' = [t \in DOMAIN try_number |->
                         IF t \in Ready THEN try_number[t] + 1 ELSE try_number[t]]
    /\ fn' = [t \in DOMAIN fn |-> IF t \in Ready THEN Invoked ELSE fn[t]]
    /\ UNCHANGED <<landed, slate, notDag>>

\* the unstarted tasks with an upstream task that failed or was itself marked
UpstreamHit ==
    {t \in DOMAIN ti :
        /\ ti[t] = "none"
        /\ \E u \in Upstream(t) : ti[u] \in {"failed", "upstream_failed"}}

\* a task whose upstream failed is never started: a pass of the scheduler
\* over the run marks every such task upstream_failed
UpstreamFailed ==
    /\ UpstreamHit # {}
    /\ ti' = [t \in DOMAIN ti |->
                 IF t \in UpstreamHit THEN "upstream_failed" ELSE ti[t]]
    /\ UNCHANGED <<try_number, fn, landed, slate, notDag>>

\* the task instance ends: invoke_* raises unless the response status is 200,
\* a BigQuery job succeeds or fails; a failed try is retried up to retries times
TaskEnd(t) ==
    /\ ti[t] = "running"
    /\ t \in FnTasks => fn[t].at \in {"returned", "raised"}
    /\ \E job \in JobResults(t) :
           LET ok == IF t \in FnTasks THEN fn[t].status = 200 ELSE job
           IN  ti' = [ti EXCEPT ![t] =
                         IF ok THEN "success"
                         ELSE IF try_number[t] <= retries THEN "up_for_retry"
                         ELSE "failed"]
    /\ UNCHANGED <<try_number, fn, landed, slate, notDag>>

\* get_nba_scoreboard as the function's entry point: an exception or the
\* value None gives the caller a 500, a returned string a 200
GetNbaScoreboard ==
    /\ fn[ScoreboardTask].at = "entered"
    /\ \E p \in ScoreboardPlans :
           LET st == get_nba_scoreboard(p.envs, p.upload)
           IN  /\ landed' = IF st.writes = <<>> THEN landed
                            ELSE [landed EXCEPT
                                     !.scoreboard = st.writes[Len(st.writes)]]
               /\ fn' = [fn EXCEPT ![ScoreboardTask] =
                            IF st.raised THEN Raise(@)
                            ELSE IF st.result = PyNone THEN Respond(@, 500)
                            ELSE Respond(@, 200)]
    /\ UNCHANGED <<ti, try_number, slate, notDag>>

\* get_nba_boxscores had get_game_ids given the listed games without reading
\* the scoreboard snapshot
GetNbaBoxscoresUnread ==
    /\ fn[BoxscoreTask].at = "entered"
    /\ fn' = [fn EXCEPT ![BoxscoreTask] =
                 [@ EXCEPT !.at = "parallel",
                           !.pool = [b \in 1..Len(BatchesOf([i \in 1..slate |-> i]))
                                        |-> "pending"]]]
    /\ UNCHANGED <<ti, try_number, landed, slate, notDag>>

\* get_nba_boxscores up to the Parallel call: get_game_ids raises without a
\* scoreboard snapshot that has resultSets, else one task per batch
GetNbaBoxscores ==
    /\ fn[BoxscoreTask].at = "entered"
    /\ fn' = [fn EXCEPT ![BoxscoreTask] =
                 IF landed.scoreboard = "payload"
                 THEN [@ EXCEPT !.at = "parallel",
                                !.pool = [b \in 1..Len(BatchesOf([i \in 1..slate |-> i]))
                                             |-> "pending"]]
                 ELSE Raise(@)]
    /\ UNCHANGED <<ti, try_number, landed, slate, notDag>>

\* the snapshot objects list_blobs finds under the partition's prefix
Listed == Cardinality(landed.games) + (IF landed.scoreboard = "none" THEN 0 ELSE 1)

\* run_silver_layer up to the Parallel call: with no blobs run() returns its
\* message, else one task per blob
RunSilverLayer ==
    /\ fn[SilverTask].at = "entered"
    /\ fn' = [fn EXCEPT ![SilverTask] =
                 IF Listed = 0
                 THEN Respond(@, 200)
                 ELSE [@ EXCEPT !.at = "parallel",
                                !.pool = [b \in 1..Listed |-> "pending"]]]
    /\ UNCHANGED <<ti, try_number, landed, slate, notDag>>

\* Parallel(n_jobs=4): the next task of the list starts while a worker is free
PoolStart(t, b) ==
    /\ fn[t].at = "parallel"
    /\ fn[t].pool[b] = "pending"
    /\ \A c \in 1..(b - 1) : fn[t].pool[c] # "pending"
    /\ Cardinality({c \in 1..Len(fn[t].pool) : fn[t].pool[c] = "running"}) < n_jobs
    /\ fn' = [fn EXCEPT ![t].pool[b] = "running"]
    /\ UNCHANGED <<ti, try_number, landed, slate, notDag>>

\* process_game_batch ends: each game id of the batch was stored or given up
BatchEnd(b) ==
    /\ fn[BoxscoreTask].at = "parallel"
    /\ fn[BoxscoreTask].pool[b] = "running"
    /\ fn' = [fn EXCEPT ![BoxscoreTask].pool[b] = "done"]
    /\ \E stored \in BOOLEAN :
           LET batch == BatchesOf([i \in 1..slate |-> i])[b]
           IN  landed' = IF stored
                         THEN [landed EXCEPT
                                  !.games = @ \cup {batch[j] : j \in 1..Len(batch)}]
                         ELSE landed
    /\ UNCHANGED <<ti, try_number, slate, notDag>>

\* process_single_file ends: it returns its records, or it raises, which ends
\* the Parallel call and the function with it
FileEnd(b) ==
    /\ fn[SilverTask].at = "parallel"
    /\ fn[SilverTask].pool[b] = "running"
    /\ \E readable \in BOOLEAN :
           fn' = [fn EXCEPT ![SilverTask] =
                     IF readable
                     THEN [@ EXCEPT !.pool[b] = "done"]
                     ELSE Raise([@ EXCEPT !.pool =
                                    [c \in 1..Len(@) |->
                                        IF c = b THEN "failed"
                                        ELSE IF @[c] = "running" THEN "killed"
                                        ELSE @[c]]])]
    /\ UNCHANGED <<ti, try_number, landed, slate, notDag>>

\* Parallel returns when every task has ended; the function returns its
\* message with status 200 (the silver function after insert_to_bigquery)
ParallelReturn(t) ==
    /\ fn[t].at = "parallel"
    /\ \A b \in 1..Len(fn[t].pool) : fn[t].pool[b] = "done"
    /\ fn' = [fn EXCEPT ![t] = Respond(@, 200)]
    /\ UNCHANGED <<ti, try_number, landed, slate, notDag>>

NextDag ==
    \/ TaskStart
    \/ UpstreamFailed
    \/ \E t \in Tasks : TaskEnd(t)
    \/ GetNbaScoreboard
    \/ GetNbaBoxscores
    \/ RunSilverLayer
    \/ \E t \in {BoxscoreTask, SilverTask} : \E b \in 1..Len(fn[t].pool) : PoolStart(t, b)
    \/ \E b \in 1..Len(fn[BoxscoreTask].pool) : BatchEnd(b)
    \/ \E b \in 1..Len(fn[SilverTask].pool) : FileEnd(b)
    \/ \E t \in {BoxscoreTask, SilverTask} : ParallelReturn(t)

SpecDag == InitDag /\ [][NextDag]_vars

------------------------------------------------------------------------------
(* Properties of the run of the DAG (SpecDag).                             *)

Started(t) == fn[t].at # "idle"
Running(t) == fn[t].at \in {"entered", "parallel"}
Ended(t) == fn[t].at \in {"returned", "raised"}
BatchesEnded(t) == \A b \in 1..Len(fn[t].pool) : fn[t].pool[b] = "done"

C30_NoScoreboardNoBoxscores ==
    landed.scoreboard = "none" =>
        /\ Started(BoxscoreTask) =>
              /\ fn[ScoreboardTask] = Respond(Invoked, 200)
              /\ fn[BoxscoreTask].at \in {"entered", "raised"}
              /\ fn[BoxscoreTask].pool = <<>>
        /\ landed.games = {}
        /\ ~Started(SilverTask)

\* the scoreboard function failed all its attempts on a day with games, and
\* the boxscore task has failed after all its tries
C30_Witness ==
    /\ landed.scoreboard = "none" /\ slate > 0
    /\ fn[ScoreboardTask] = Respond(Invoked, 200)
    /\ fn[BoxscoreTask].at = "raised"
    /\ try_number[BoxscoreTask] = retries + 1
    /\ ti[BoxscoreTask] = "failed"
    /\ landed.games = {}

-----------------------------------------------------------------------------
(* dag/dag.py: the write-audit-publish part of a run, from the write task  *)
(* to the analytics tasks (SpecWap).  The silver task has succeeded.       *)

MaxFailing == 1    \* most tasks of the run whose jobs can fail

WapTasks == {WriteTask} \cup Audits \cup {PublishTask, ReferenceTask} \cup Analytics

\* the tasks whose jobs fail, among the write task and the audits, and
\* whether their first try fails or every try does
JobPlans ==
    [failing : {G \in SUBSET ({WriteTask} \cup Audits) : Cardinality(G) <= MaxFailing},
     fails : {1, retries + 1}]

InitWap ==
    /\ FetchIdle /\ PoolIdle /\ BronzeIdle /\ FlattenIdle /\ SilverIdle /\ LoadIdle
    /\ BatchIdle /\ ClockIdle
    /\ objects = {} /\ reruns = <<>>
    /\ plan \in JobPlans
    /\ ti = [t \in WapTasks \cup {SilverTask} |->
                IF t = SilverTask THEN "success" ELSE "none"]
    /\ try_number = [t \in WapTasks \cup {SilverTask} |->
                        IF t = SilverTask THEN 1 ELSE 0]
    /\ fn = <<>>
    /\ landed = <<>>
    /\ slate = 0

NextWap ==
    \/ TaskStart
    \/ UpstreamFailed
    \/ \E t \in WapTasks : TaskEnd(t)

SpecWap == InitWap /\ [][NextWap]_vars

-----------------------------------------------------------------------------
(* Properties of the write-audit-publish part (SpecWap).                   *)

\* the task instance was started at least once in the run
WasStarted(t) == try_number[t] > 0

\* publish and the tasks after it
FromPublish == {PublishTask, ReferenceTask} \cup Analytics

\* C32: the publish task is started only when all seven audits have
\* succeeded; once an audit has failed, neither publish nor any task after
\* it is ever started in the run; and no audit is started before the write
\* task has succeeded.
C32_PublishOnlyAfterAllAudits ==
    /\ WasStarted(PublishTask) => \A a \in Audits : ti[a] = "success"
    /\ (\E a \in Audits : ti[a] = "failed") =>
          \A t \in FromPublish :
              ~WasStarted(t) /\ ti[t] \in {"none", "upstream_failed"}
    /\ \A a \in Audits : WasStarted(a) => ti[WriteTask] = "success"

\* an audit has failed on its last try while the six others succeeded, and
\* publish and every task after it were marked upstream_failed unstarted
C32_Witness ==
    /\ plan # <<>>
    /\ \E a \in Audits :
          /\ ti[a] = "failed" /\ try_number[a] = retries + 1
          /\ \A o \in Audits \ {a} : ti[o] = "success"
    /\ \A t \in FromPublish : ti[t] = "upstream_failed" /\ try_number[t] = 0

-----------------------------------------------------------------------------
(* The partition key of the three stages of one pipeline run (SpecClock):  *)
(* bronze_layer_1.py 56-64, bronze_layer_2.py 49-51, silver_layer_1.py     *)
(* 546-549.  The clock counts ticks from midnight of 2024-12-30.           *)

TicksPerDay == 2   \* how finely the clock divides a day
MaxNow == 9        \* the last tick looked at

\* the calendar date of a day counted from 2024-12-30 (up to 2025-01-31)
DateOfDay(d) ==
    IF d <= 1 THEN [year |-> 2024, month |-> 12, day |-> 30 + d]
    ELSE [year |-> 2025, month |-> 1, day |-> d - 1]

DigitText == <<"0", "1", "2", "3", "4", "5", "6", "7", "8", "9">>

\* strftime("%m"), strftime("%d"): two digits, zero-padded
TwoDigits(n) == DigitText[(n \div 10) + 1] \o DigitText[(n % 10) + 1]

\* strftime("%Y")
FourDigits(n) == TwoDigits(n \div 100) \o TwoDigits(n % 100)

\* datetime.now() - timedelta(days=1), as a date
Yesterday(t) == DateOfDay((t - TicksPerDay) \div TicksPerDay)

\* "year=" + %Y + "/month=" + %m + "/day=" + %d of yesterday
DatePathAt(t) ==
    LET y == Yesterday(t)
    IN  "year=" \o FourDigits(y.year) \o "/month=" \o TwoDigits(y.month)
            \o "/day=" \o TwoDigits(y.day)

\* the stages in the order the DAG runs them
Stages == <<"scoreboard", "boxscore", "silver">>

\* the objects a stage addresses under its key: the scoreboard writer its
\* snapshot, the boxscore stage the scoreboard snapshot it reads and the game
\* snapshots it writes, the silver stage the prefix it lists
ResourcesOf(s) ==
    CASE s = 1 -> {"scoreboard.parquet"}
      [] s = 2 -> {"scoreboard.parquet", "0022400752.parquet", "0022400753.parquet"}
      [] s = 3 -> {"list_blobs"}

NotStarted == 0 - 1
StageIdle == [at |-> "idle", started |-> NotStarted, date_path |-> "", used |-> {}]

InitClock ==
    /\ FetchIdle /\ PoolIdle /\ BronzeIdle /\ FlattenIdle /\ SilverIdle /\ StoreIdle
    /\ LoadIdle /\ DagIdle /\ BatchIdle
    /\ now \in TicksPerDay..MaxNow
    /\ stages = [s \in 1..Len(Stages) |-> StageIdle]

\* time passes
Tick ==
    /\ stages # <<>>
    /\ now < MaxNow
    /\ now' = now + 1
    /\ UNCHANGED <<stages, notClock>>

\* a stage is invoked once the stage before it has ended: it reads the clock
\* and builds its key
StageStart(s) ==
    /\ stages[s].at = "idle"
    /\ s > 1 => stages[s - 1].at = "done"
    /\ stages' = [stages EXCEPT ![s] = [@ EXCEPT !.at = "running",
                                                  !.started = now,
                                                  !.date_path = DatePathAt(now)]]
    /\ UNCHANGED <<now, notClock>>

\* the stage had it built the key again from the clock for each object
StageUseFreshKey(s) ==
    /\ stages[s].at = "running"
    /\ \E name \in ResourcesOf(s) :
          stages' = [stages EXCEPT ![s].used =
                        @ \cup {[key |-> DatePathAt(now), name |-> name]}]
    /\ UNCHANGED <<now, notClock>>

\* the stage addresses an object under the key it built at its start
StageUse(s) ==
    /\ stages[s].at = "running"
    /\ \E name \in ResourcesOf(s) :
          stages' = [stages EXCEPT ![s].used =
                        @ \cup {[key |-> stages[s].date_path, name |-> name]}]
    /\ UNCHANGED <<now, notClock>>

\* the stage returns
StageEnd(s) ==
    /\ stages[s].at = "running"
    /\ stages[s].used # {}
    /\ stages' = [stages EXCEPT ![s].at = "done"]
    /\ UNCHANGED <<now, notClock>>

NextClock ==
    \/ Tick
    \/ \E s \in 1..Len(Stages) : StageStart(s)
    \/ \E s \in 1..Len(Stages) : StageUse(s)
    \/ \E s \in 1..Len(Stages) : StageEnd(s)

SpecClock == InitClock /\ [][NextClock]_vars

-----------------------------------------------------------------------------
(* Properties of the partition keys (SpecClock).                           *)

\* the calendar day a tick falls on
DayOfTick(t) == t \div TicksPerDay

AllStarted == \A s \in 1..Len(Stages) : stages[s].at # "idle"

\* C34: each stage builds its key from its own reading of the clock minus
\* one day at its own start; the three stages of a run have the same key
\* exactly when all three started on the same calendar day; and every object
\* a stage addresses is addressed under the one key it built at its start.
C34_KeyPerStageFromItsStart ==
    /\ \A s \in 1..Len(stages) :
          stages[s].at # "idle" =>
             /\ stages[s].date_path = DatePathAt(stages[s].started)
             /\ \A u \in stages[s].used : u.key = stages[s].date_path
    /\ AllStarted =>
          ((\A s \in 2..Len(stages) : stages[s].date_path = stages[1].date_path)
             <=> (\A s \in 2..Len(stages) :
                     DayOfTick(stages[s].started) = DayOfTick(stages[1].started)))

\* a run that crossed midnight between the boxscore stage and the silver
\* stage: the boxscore stage wrote its snapshots after midnight under the key
\* of its start, and the silver stage lists another partition
C34_Witness ==
    /\ AllStarted /\ stages[3].at = "done"
    /\ stages[1].date_path = "year=2024/month=12/day=31"
    /\ stages[2].date_path = "year=2024/month=12/day=31"
    /\ stages[3].date_path = "year=2025/month=01/day=01"
    /\ Cardinality(stages[2].used) = 3
    /\ now > stages[3].started

====
